---- MODULE Spec2Model ----
(***************************************************************************)
(* Content segmentation and routine assembly pipeline of the Solstice app: *)
(* URL import (BuilderScreen.handleImport, intakeAgent), the routine       *)
(* context (RoutineProvider), the routine generator and the two playback   *)
(* screens.  Every definition is a translation of the TypeScript source.   *)
(***************************************************************************)
EXTENDS Integers, Sequences, FiniteSets, TLC

VARIABLES
    agent,          \* which intakeAgent the build links: the mock or the agent-api client
    service,        \* what the external /parse service answers during this run
    user,           \* AuthContext: the signed-in user, or NoUser
    cards,          \* BuilderScreen: const [cards, setCards] = useState<Card[]>([])
    alert,          \* BuilderScreen: the notice shown last (Alert.alert / handleError)
    isLoading,      \* BuilderScreen: const [isLoading, setIsLoading] = useState(false)
    savedContent,   \* contentService: the content handleImport has added to savedContent
    call,           \* the last handleImport: its url, the requests sent, how intakeAgent ended
    edit            \* the last edit of the card list: its name, arguments, and the list before

VARIABLES
    activeRoutine,  \* RoutineProvider: const [activeRoutine, setActiveRoutine] = useState(null)
    routines,       \* RoutineProvider: const [routines, setRoutines] = useState([])
    rendered,       \* the activeRoutine and routines the provider's functions closed over at the last render
    now,            \* Date.now()
    op,             \* the last RoutineProvider call: its name, its argument (arg), the cards of
                    \* the routine as the call read them (before), and what it returned
    generated       \* the routine generateRoutineFromPrompt returned last

VARIABLES
    screen,         \* which PerformRoutineScreen is mounted: RoutinePlayback/ or perform/
    playedCards,   \* RoutinePlayback: route.params.cards, each card with its duration (0: none)
    currentIndex,   \* RoutinePlayback: const [currentIndex, setCurrentIndex] = useState(0)
    isPlaying,      \* RoutinePlayback: const [isPlaying, setIsPlaying] = useState(false)
    timeLeft,       \* RoutinePlayback: const [timeLeft, setTimeLeft] = useState(0)
    timerRef,       \* RoutinePlayback: TRUE while the interval held by timerRef is scheduled
    ticks,          \* RoutinePlayback: the callbacks the scheduled interval has delivered
    event,          \* the handler or callback that ran last on the mounted screen
    intervals,      \* the setInterval timers of the screen that are scheduled
    routineCompleteAlert, \* RoutinePlayback: Alert.alert('Routine Complete', ...) was shown
    sections,       \* perform: routine.sections, as the number of exercises of each
    currentSection, \* perform: const [currentSection, setCurrentSection] = useState(0)
    currentExercise, \* perform: const [currentExercise, setCurrentExercise] = useState(0)
    timer,          \* perform: const [timer, setTimer] = useState(0)
    isTimerRunning, \* perform: const [isTimerRunning, setIsTimerRunning] = useState(false)
    isCompleted     \* perform: const [isCompleted, setIsCompleted] = useState(false)

VARIABLES
    editedCard,     \* CardEditorModal: const [editedCard, setEditedCard] = useState(null)
    cues,           \* CardEditorModal: const [cues, setCues] = useState<Cue[]>([])
    newCue,         \* CardEditorModal: const [newCue, setNewCue] = useState('')
    loading,        \* CardEditorModal: const [loading, setLoading] = useState(false)
    suggestedCues,  \* CardEditorModal: const [suggestedCues, setSuggestedCues] = useState([])
    fetching,       \* the cards whose fetchSuggestedCues awaits cueAgent
    cueCalls,       \* the calls of cueAgent that returned: the card's title, the labels
    cueEdit         \* the last edit of cues: its name and its cue

VARIABLES
    selectorMounted, \* a SegmentSelector is mounted in the card editor
    startTime,      \* SegmentSelector: const [startTime, setStartTime] = useState(initialStartTime)
    endTime,        \* SegmentSelector: const [endTime, setEndTime] = useState(initialEndTime || 60)
    videoDuration,  \* SegmentSelector: const [duration, setDuration] = useState(0)
    selectorIsLoading \* SegmentSelector: const [isLoading, setIsLoading] = useState(true)

VARIABLES
    sinceScheduled, \* perform: clock units since the interval was scheduled or last fired
    runningTime     \* perform: clock units spent with the timer running (history)

VARIABLES
    navigation      \* the route navigation.navigate last went to, with its params

VARIABLES
    platformConnections, \* repositoryService: let platformConnections
    inFlight,       \* the calls of the repository service suspended on their delay
    syncResult      \* how the last syncFromPlatform call ended (history)

builderVars == <<agent, service, user, cards, alert, isLoading, savedContent, call, edit>>
contextVars == <<activeRoutine, routines, rendered, now, op, generated>>
playbackVars ==
    <<playedCards, currentIndex, isPlaying, timeLeft, timerRef, ticks, routineCompleteAlert>>
performVars == <<sections, currentSection, currentExercise, timer, isTimerRunning, isCompleted>>
screenVars == <<screen, event, intervals, playbackVars, performVars>>
editorVars ==
    <<editedCard, cues, newCue, loading, suggestedCues, fetching, cueCalls, cueEdit>>
selectorVars == <<selectorMounted, startTime, endTime, videoDuration, selectorIsLoading>>
clockVars == <<sinceScheduled, runningTime>>
navVars == <<navigation>>
platformVars == <<platformConnections, inFlight, syncResult>>
extraVars == <<clockVars, navVars, platformVars>>
vars == <<builderVars, contextVars, screenVars, editorVars, selectorVars, extraVars>>

(***************************************************************************)
(* Bounds                                                                  *)
(***************************************************************************)
MaxImports == 2     \* imports performed in one run
MaxSegments == 3    \* segments in one service response
MaxPromptWords == 2 \* words in a generated prompt
MaxPlaybackCards == 3 \* cards of a routine that is played
MaxDuration == 2    \* the longest card duration of a routine that is played, in seconds
MaxSections == 2    \* sections of a performed routine
MaxExercises == 2   \* exercises of a section
MaxTimer == 3       \* seconds the stopwatch of the perform screen is followed for
MaxOvershoot == 2   \* how far below 0 and beyond the last index a target index is tried
MaxFetches == 1     \* calls of cueAgent in flight at once
MaxCues == 2        \* cues in the list when addCue adds one more
MaxClock == 2       \* the last value of Date.now() at which a routine is created
MaxRoutineCards == 2 \* cards in a routine of the routine context
UnitsPerInterval == 2 \* clock units in the 1000 ms of the stopwatch interval
MaxRunning == 6     \* clock units the stopwatch is followed for while it runs
MaxInFlight == 2    \* calls of the repository service suspended at once
MaxSynced == 2      \* items one syncFromPlatform call returns
MaxCards == 3       \* the largest maxCards asked of generateRoutineFromRepository

(***************************************************************************)
(* JavaScript string primitives                                            *)
(***************************************************************************)
UpperChars == "ABCDEFGHIJKLMNOPQRSTUVWXYZ"
LowerChars == "abcdefghijklmnopqrstuvwxyz"

\* String.prototype.includes
includes(s, kw) ==
    \E i \in 1..(Len(s) - Len(kw) + 1) : SubSeq(s, i, i + Len(kw) - 1) = kw

startsWith(s, p) == Len(s) >= Len(p) /\ SubSeq(s, 1, Len(p)) = p

toLowerChar(c) ==
    IF \E i \in 1..26 : SubSeq(UpperChars, i, i) = c
    THEN LET i == CHOOSE k \in 1..26 : SubSeq(UpperChars, k, k) = c
         IN  SubSeq(LowerChars, i, i)
    ELSE c

RECURSIVE toLowerCase(_)
\* String.prototype.toLowerCase
toLowerCase(s) ==
    IF Len(s) = 0 THEN ""
    ELSE toLowerChar(SubSeq(s, 1, 1)) \o toLowerCase(SubSeq(s, 2, Len(s)))

RECURSIVE trim(_)
\* String.prototype.trim
trim(s) ==
    IF Len(s) = 0 THEN ""
    ELSE IF SubSeq(s, 1, 1) = " " THEN trim(SubSeq(s, 2, Len(s)))
    ELSE IF SubSeq(s, Len(s), Len(s)) = " " THEN trim(SubSeq(s, 1, Len(s) - 1))
    ELSE s

\* new URL(url): succeeds on the absolute http(s) URLs, throws on the rest
UrlParses(url) ==
    \E p \in {"http://", "https://"} : startsWith(url, p) /\ Len(url) > Len(p)

RECURSIVE upTo(_, _)
\* the prefix of s before the first occurrence of the character c
upTo(s, c) ==
    IF Len(s) = 0 \/ SubSeq(s, 1, 1) = c THEN ""
    ELSE SubSeq(s, 1, 1) \o upTo(SubSeq(s, 2, Len(s)), c)

\* new URL(url).hostname
hostname(url) ==
    LET p == CHOOSE q \in {"http://", "https://"} : startsWith(url, q)
    IN  toLowerCase(upTo(SubSeq(url, Len(p) + 1, Len(url)), "/"))

(***************************************************************************)
(* intakeAgent, mock implementation (services/agentService.ts)             *)
(***************************************************************************)
YoutubeCards(url) == <<
    [id |-> "1", title |-> "Warm-up Routine", source_url |-> url, source_type |-> "youtube",
     media_url |-> "https://www.youtube.com/embed/dQw4w9WgXcQ",
     startTime |-> 0, endTime |-> 300, duration |-> 300, createdBy |-> "agent",
     cues |-> <<[id |-> "c1", label |-> "Keep your back straight", type |-> "form"],
                [id |-> "c2", label |-> "Breathe deeply", type |-> "breathing", timestamp |-> 120]>>],
    [id |-> "2", title |-> "Core Exercise 1", source_url |-> url, source_type |-> "youtube",
     media_url |-> "https://www.youtube.com/embed/dQw4w9WgXcQ",
     startTime |-> 310, endTime |-> 490, duration |-> 180, sets |-> 3, reps |-> 12,
     createdBy |-> "agent",
     cues |-> <<[id |-> "c3", label |-> "Engage your core", type |-> "focus", timestamp |-> 330],
                [id |-> "c4", label |-> "Slow controlled movement", type |-> "tempo", timestamp |-> 400]>>],
    [id |-> "3", title |-> "Rest Period", source_url |-> url, source_type |-> "youtube",
     media_url |-> "https://www.youtube.com/embed/dQw4w9WgXcQ",
     startTime |-> 490, endTime |-> 550, duration |-> 60, createdBy |-> "agent", cues |-> <<>>],
    [id |-> "4", title |-> "Core Exercise 2", source_url |-> url, source_type |-> "youtube",
     media_url |-> "https://www.youtube.com/embed/dQw4w9WgXcQ",
     startTime |-> 550, endTime |-> 790, duration |-> 240, sets |-> 4, reps |-> 10,
     createdBy |-> "agent",
     cues |-> <<[id |-> "c5", label |-> "Keep your hips stable", type |-> "form", timestamp |-> 600]>>] >>

InstagramCards(url) == <<
    [id |-> "5", title |-> "Quick HIIT Burst", source_url |-> url, source_type |-> "instagram",
     media_url |-> "https://www.instagram.com/p/mock-post/",
     startTime |-> 0, endTime |-> 45, duration |-> 45, createdBy |-> "agent",
     cues |-> <<[id |-> "c6", label |-> "Maximum effort!", type |-> "focus", timestamp |-> 15],
                [id |-> "c7", label |-> "Control your breathing", type |-> "breathing", timestamp |-> 30]>>],
    [id |-> "6", title |-> "Recovery Stretch", source_url |-> url, source_type |-> "instagram",
     media_url |-> "https://www.instagram.com/p/mock-post/",
     startTime |-> 50, endTime |-> 110, duration |-> 60, createdBy |-> "agent",
     cues |-> <<[id |-> "c8", label |-> "Hold for 10 seconds", type |-> "tempo", timestamp |-> 60]>>] >>

TiktokCards(url) == <<
    [id |-> "7", title |-> "Quick Abs Exercise", source_url |-> url, source_type |-> "tiktok",
     startTime |-> 0, endTime |-> 30, duration |-> 30, createdBy |-> "agent",
     cues |-> <<[id |-> "c9", label |-> "Tighten your core", type |-> "form", timestamp |-> 10]>>] >>

ArticleCards(url) == <<
    [id |-> "8", title |-> "Meditation Introduction", source_url |-> url, source_type |-> "article",
     duration |-> 180, createdBy |-> "agent",
     cues |-> <<[id |-> "c10", label |-> "Find a comfortable seated position", type |-> "form"],
                [id |-> "c11", label |-> "Focus on your breath", type |-> "breathing", timestamp |-> 60]>>],
    [id |-> "9", title |-> "Body Scan", source_url |-> url, source_type |-> "article",
     duration |-> 300, createdBy |-> "agent",
     cues |-> <<[id |-> "c12", label |-> "Start from your toes and move upward", type |-> "focus",
                 timestamp |-> 120]>>] >>

GenericCards(url) == <<
    [id |-> "10", title |-> "Exercise from " \o hostname(url), source_url |-> url,
     source_type |-> "custom", duration |-> 180, createdBy |-> "agent", cues |-> <<>>] >>

\* the cards the mock returns for url; it sends no request, and throws only
\* where new URL(url) throws in the last branch
intakeAgent(url) ==
    IF includes(url, "youtube") \/ includes(url, "youtu.be")
        THEN [threw |-> FALSE, cards |-> YoutubeCards(url), requests |-> 0]
    ELSE IF includes(url, "instagram") \/ includes(url, "insta")
        THEN [threw |-> FALSE, cards |-> InstagramCards(url), requests |-> 0]
    ELSE IF includes(url, "tiktok")
        THEN [threw |-> FALSE, cards |-> TiktokCards(url), requests |-> 0]
    ELSE IF includes(url, "blog") \/ includes(url, "article")
        THEN [threw |-> FALSE, cards |-> ArticleCards(url), requests |-> 0]
    ELSE IF UrlParses(url)
        THEN [threw |-> FALSE, cards |-> GenericCards(url), requests |-> 0]
    ELSE [threw |-> TRUE, cards |-> <<>>, requests |-> 0]

(***************************************************************************)
(* intakeAgent, agent-api client (agent-api/README.md, "Integration with   *)
(* Solstice App"): one POST /parse, throw unless response.ok, else the     *)
(* response body as it came                                                *)
(***************************************************************************)
intakeAgentApi(url, response) ==
    IF ~response.ok
        THEN [threw |-> TRUE, cards |-> <<>>, requests |-> 1]
    ELSE [threw |-> FALSE, cards |-> response.json, requests |-> 1]

(***************************************************************************)
(* The external /parse service: it is down (fetch rejects or the status is *)
(* not ok), or it answers with a list of segments of its own choosing      *)
(***************************************************************************)
SegIntro  == [id |-> "s1", title |-> "Intro", source_type |-> "youtube",
              startTime |-> 0, endTime |-> 30, duration |-> 30, cues |-> <<>>]
SegMain   == [id |-> "s2", title |-> "Main set", source_type |-> "youtube",
              startTime |-> 30, endTime |-> 90, duration |-> 60, cues |-> <<>>]
SegBackwards == [id |-> "s3", title |-> "Backwards", source_type |-> "youtube",
              startTime |-> 50, endTime |-> 40, duration |-> 0, cues |-> <<>>]
SegZeroLength == [id |-> "s4", title |-> "Zero length", source_type |-> "youtube",
              startTime |-> 10, endTime |-> 10, duration |-> 0, cues |-> <<>>]
SegUntitled == [id |-> "s5", title |-> "", source_type |-> "youtube",
              startTime |-> 0, endTime |-> 10, duration |-> 10, cues |-> <<>>]

Segments == {SegIntro, SegMain, SegBackwards, SegZeroLength, SegUntitled}

\* the lists of at most MaxSegments distinct segments
SegmentLists ==
    UNION { { q \in [1..n -> Segments] : \A i, j \in 1..n : i # j => q[i] # q[j] }
            : n \in 0..MaxSegments }

ServiceDown == [ok |-> FALSE, json |-> <<>>]
ServiceAnswers == {ServiceDown} \cup { [ok |-> TRUE, json |-> q] : q \in SegmentLists }

(***************************************************************************)
(* BuilderScreen (unnamed/part_002)                                        *)
(***************************************************************************)
NoUser == "no user"
NoEdit == [name |-> "none"]
NoCall == [n |-> 0, url |-> "", status |-> "none", cards |-> <<>>, requests |-> 0]

Urls == { "https://youtube.com/watch?v=abc",
          "https://www.tiktok.com/@u/video/1",
          "https://www.instagram.com/p/1",
          "https://medium.com/blog/stretch",
          "https://Example.com/plan",
          "youtube.com/watch",
          " " }

\* BuilderScreen.detectPlatform
\* detectPlatform with the tiktok test moved before the instagram test
detectPlatform_tiktokFirst(url) ==
    LET urlLower == toLowerCase(url)
    IN  IF includes(urlLower, "youtube.com") \/ includes(urlLower, "youtu.be") THEN "youtube"
        ELSE IF includes(urlLower, "tiktok.com") THEN "tiktok"
        ELSE IF includes(urlLower, "instagram.com") THEN "instagram"
        ELSE IF \/ includes(urlLower, "medium.com") \/ includes(urlLower, "blog.")
                \/ includes(urlLower, "article") \/ includes(urlLower, ".blog") THEN "article"
        ELSE "web"

detectPlatform(url) ==
    LET urlLower == toLowerCase(url)
    IN  IF includes(urlLower, "youtube.com") \/ includes(urlLower, "youtu.be") THEN "youtube"
        ELSE IF includes(urlLower, "instagram.com") THEN "instagram"
        ELSE IF includes(urlLower, "tiktok.com") THEN "tiktok"
        ELSE IF \/ includes(urlLower, "medium.com") \/ includes(urlLower, "blog.")
                \/ includes(urlLower, "article") \/ includes(urlLower, ".blog") THEN "article"
        ELSE "web"

\* contentService.saveContent: the new content goes to the front of the store
saveContent(content) == savedContent' = <<content>> \o savedContent

\* BuilderScreen.addCards
addCards(newCards) == cards' = cards \o newCards

\* handleImport without the new URL(url) check
handleImport_unvalidated(url) ==
    /\ ~isLoading
    /\ call.n < MaxImports
    /\ IF trim(url) = ""
         THEN /\ alert' = "Please enter a URL"
              /\ call' = [n |-> call.n + 1, url |-> url, status |-> "no url", cards |-> <<>>,
                          requests |-> 0]
              /\ UNCHANGED isLoading
       ELSE /\ isLoading' = TRUE
            /\ call' = [n |-> call.n + 1, url |-> url, status |-> "pending", cards |-> <<>>,
                        requests |-> 0]
            /\ UNCHANGED alert
    /\ UNCHANGED <<agent, service, user, cards, savedContent, edit>>

\* BuilderScreen.handleImport up to its first await: the two input checks,
\* then setIsLoading(true)
handleImport(url) ==
    /\ ~isLoading
    /\ call.n < MaxImports
    /\ IF trim(url) = ""
         THEN /\ alert' = "Please enter a URL"
              /\ call' = [n |-> call.n + 1, url |-> url, status |-> "no url", cards |-> <<>>,
                          requests |-> 0]
              /\ UNCHANGED isLoading
       ELSE IF ~UrlParses(url)
         THEN /\ alert' = "Invalid Input"
              /\ call' = [n |-> call.n + 1, url |-> url, status |-> "invalid url",
                          cards |-> <<>>, requests |-> 0]
              /\ UNCHANGED isLoading
       ELSE /\ isLoading' = TRUE
            /\ call' = [n |-> call.n + 1, url |-> url, status |-> "pending", cards |-> <<>>,
                        requests |-> 0]
            /\ UNCHANGED alert
    /\ UNCHANGED <<agent, service, user, cards, savedContent, edit>>

\* BuilderScreen.handleImport from its first await on: saveContent, intakeAgent,
\* addCards, the notice, and the finally block
handleImportSettles ==
    /\ isLoading
    /\ LET url == call.url
           r == IF agent = "mock" THEN intakeAgent(url) ELSE intakeAgentApi(url, service)
       IN  /\ IF user # NoUser
                THEN saveContent([platform |-> detectPlatform(url), url |-> url, userId |-> user])
                ELSE UNCHANGED savedContent
           /\ IF r.threw
                THEN /\ alert' = "Server Error"
                     /\ UNCHANGED cards
                ELSE /\ addCards(r.cards)
                     /\ alert' = IF Len(r.cards) > 0 THEN "Import Successful"
                                                     ELSE "No Content Found"
           /\ edit' = IF r.threw THEN edit ELSE [name |-> "addCards", before |-> cards]
           /\ call' = [call EXCEPT !.status = IF r.threw THEN "threw" ELSE "returned",
                                   !.cards = r.cards, !.requests = r.requests]
    /\ isLoading' = FALSE
    /\ UNCHANGED <<agent, service, user>>

\* BuilderScreen.removeCard
removeCard(cardId) ==
    /\ cards' = SelectSeq(cards, LAMBDA card : card.id # cardId)
    /\ edit' = [name |-> "removeCard", cardId |-> cardId, before |-> cards]
    /\ UNCHANGED <<agent, service, user, alert, isLoading, savedContent, call>>

\* Array.prototype.splice(start, deleteCount, ...items) on a copy: the start index
\* counts from the end when negative and is clamped to [0, length]
spliceStart(arr, start) ==
    IF start < 0 THEN (IF Len(arr) + start < 0 THEN 0 ELSE Len(arr) + start)
    ELSE IF start > Len(arr) THEN Len(arr) ELSE start

spliceRemoved(arr, start, deleteCount) ==
    LET from == spliceStart(arr, start)
        n == IF deleteCount > Len(arr) - from THEN Len(arr) - from ELSE deleteCount
    IN  SubSeq(arr, from + 1, from + n)

splice(arr, start, deleteCount, items) ==
    LET from == spliceStart(arr, start)
        n == IF deleteCount > Len(arr) - from THEN Len(arr) - from ELSE deleteCount
    IN  SubSeq(arr, 1, from) \o items \o SubSeq(arr, from + n + 1, Len(arr))

UndefinedCard == [undefined |-> TRUE]   \* the value of [removed] when splice removed nothing

\* BuilderScreen.reorderCards(fromIndex, toIndex), 0-based
BuilderReorderCards(fromIndex, toIndex) ==
    /\ LET taken == spliceRemoved(cards, fromIndex, 1)
           removed == IF Len(taken) > 0 THEN taken[1] ELSE UndefinedCard
           result == splice(cards, fromIndex, 1, <<>>)
       IN  cards' = splice(result, toIndex, 0, <<removed>>)
    /\ edit' = [name |-> "reorderCards", fromIndex |-> fromIndex, toIndex |-> toIndex,
                before |-> cards]
    /\ UNCHANGED <<agent, service, user, alert, isLoading, savedContent, call>>

\* the orders the draggable list can hand to onDragEnd: one item moved
DragResults ==
    { splice(splice(cards, i, 1, <<>>), j, 0, <<cards[i + 1]>>) :
        i \in 0..(Len(cards) - 1), j \in 0..(Len(cards) - 1) }

\* BuilderScreen.handleDragEnd
handleDragEnd(data) ==
    /\ ~isLoading
    /\ cards' = data
    /\ edit' = [name |-> "handleDragEnd", before |-> cards]
    /\ UNCHANGED <<agent, service, user, alert, isLoading, savedContent, call>>

\* Array.prototype.findIndex(card => card.id === id), 0-based, -1 when none
findIndex(arr, id) ==
    IF \E i \in 1..Len(arr) : arr[i].id = id
    THEN (CHOOSE i \in 1..Len(arr) :
            arr[i].id = id /\ \A j \in 1..(i - 1) : arr[j].id # id) - 1
    ELSE -1

\* the first index of data whose card is not at that index of cards; Len(data)
\* when there is none
FirstMoved(data) ==
    LET moved == { i \in 0..(Len(data) - 1) : findIndex(cards, data[i + 1].id) # i }
    IN  IF moved = {} THEN Len(data)
        ELSE CHOOSE i \in moved : \A j \in moved : i <= j

\* handleDragEnd of screens/RoutineBuilder/BuilderScreen.tsx: the first card
\* of data that is out of place is moved with reorderCards(currentIndex, i)
RoutineBuilderHandleDragEnd(data) ==
    /\ ~isLoading
    /\ LET i == FirstMoved(data)
       IN  IF i < Len(data)
           THEN BuilderReorderCards(findIndex(cards, data[i + 1].id), i)
           ELSE UNCHANGED builderVars

NoRoutine == [none |-> TRUE]    \* null where a routine is expected
NoOp == [name |-> "none"]

(***************************************************************************)
(* Routine generator (services/agentService.ts, second half)               *)
(***************************************************************************)
\* generateMockId: the n-th random id drawn in a call whose random stream is seed
generateMockId(seed, n) == <<seed, n>>

\* calculateTotalDuration
RECURSIVE calculateTotalDuration(_)
calculateTotalDuration(routineCards) ==
    IF routineCards = <<>> THEN 0
    ELSE LET routineCard == routineCards[Len(routineCards)]
             own == IF "duration" \in DOMAIN routineCard THEN routineCard.duration ELSE 0
             ofCard == IF "duration" \in DOMAIN routineCard.card
                       THEN routineCard.card.duration ELSE 0
         IN  calculateTotalDuration(SubSeq(routineCards, 1, Len(routineCards) - 1))
                + (IF own # 0 THEN own ELSE ofCard)

\* extractRoutineType with the cardio test moved before the strength test
extractRoutineType_cardioFirst(prompt) ==
    LET prompt_lower == toLowerCase(prompt)
    IN  IF includes(prompt_lower, "yoga") \/ includes(prompt_lower, "stretch") THEN "yoga"
        ELSE IF includes(prompt_lower, "cardio") \/ includes(prompt_lower, "hiit")
            THEN "cardio"
        ELSE IF includes(prompt_lower, "strength") \/ includes(prompt_lower, "weight")
            THEN "strength"
        ELSE IF includes(prompt_lower, "meditation") \/ includes(prompt_lower, "mindfulness")
            THEN "meditation"
        ELSE IF includes(prompt_lower, "pilates") THEN "pilates"
        ELSE "general"

\* extractRoutineType
extractRoutineType(prompt) ==
    LET prompt_lower == toLowerCase(prompt)
    IN  IF includes(prompt_lower, "yoga") \/ includes(prompt_lower, "stretch") THEN "yoga"
        ELSE IF includes(prompt_lower, "strength") \/ includes(prompt_lower, "weight")
            THEN "strength"
        ELSE IF includes(prompt_lower, "cardio") \/ includes(prompt_lower, "hiit")
            THEN "cardio"
        ELSE IF includes(prompt_lower, "meditation") \/ includes(prompt_lower, "mindfulness")
            THEN "meditation"
        ELSE IF includes(prompt_lower, "pilates") THEN "pilates"
        ELSE "general"

\* getMockCardsForType: the template of each type, as <<title, duration>> or
\* <<title, sets, reps>>; the ids are drawn by generateMockId
TimedCard(seed, n, title, duration) ==
    [id |-> generateMockId(seed, n), title |-> title, sourceType |-> "custom",
     duration |-> duration]

RepsCard(seed, n, title, sets, reps) ==
    [id |-> generateMockId(seed, n), title |-> title, sourceType |-> "custom",
     sets |-> sets, reps |-> reps]

getMockCardsForType(type, seed) ==
    CASE type = "yoga" ->
            << TimedCard(seed, 1, "Sun Salutation A", 180),
               TimedCard(seed, 2, "Standing Poses", 300),
               TimedCard(seed, 3, "Final Relaxation", 240) >>
      [] type = "strength" ->
            << TimedCard(seed, 1, "Warm-up", 180),
               RepsCard(seed, 2, "Squat Series", 3, 12),
               RepsCard(seed, 3, "Push-up Variations", 3, 10),
               TimedCard(seed, 4, "Cool Down", 240) >>
      [] type = "cardio" ->
            << TimedCard(seed, 1, "Warm-up Jog", 180),
               TimedCard(seed, 2, "HIIT Interval 1", 240),
               TimedCard(seed, 3, "Active Recovery", 120),
               TimedCard(seed, 4, "HIIT Interval 2", 240),
               TimedCard(seed, 5, "Cool Down", 180) >>
      [] type = "meditation" ->
            << TimedCard(seed, 1, "Settling In", 120),
               TimedCard(seed, 2, "Breath Awareness", 300),
               TimedCard(seed, 3, "Body Scan", 360),
               TimedCard(seed, 4, "Gentle Return", 120) >>
      [] OTHER ->
            << TimedCard(seed, 1, "Getting Started", 120),
               TimedCard(seed, 2, "Main Activity", 480),
               TimedCard(seed, 3, "Finishing Up", 180) >>

RECURSIVE split(_, _)
\* String.prototype.split(' ')
split(s, acc) ==
    IF Len(s) = 0 THEN <<acc>>
    ELSE IF SubSeq(s, 1, 1) = " " THEN <<acc>> \o split(SubSeq(s, 2, Len(s)), "")
    ELSE split(SubSeq(s, 2, Len(s)), acc \o SubSeq(s, 1, 1))

toUpperChar(c) ==
    IF \E i \in 1..26 : SubSeq(LowerChars, i, i) = c
    THEN LET i == CHOOSE k \in 1..26 : SubSeq(LowerChars, k, k) = c
         IN  SubSeq(UpperChars, i, i)
    ELSE c

RECURSIVE join(_)
\* Array.prototype.join(' ')
join(words) ==
    IF words = <<>> THEN ""
    ELSE IF Len(words) = 1 THEN words[1]
    ELSE words[1] \o " " \o join(Tail(words))

StopWords == {"with", "that", "this", "from", "want", "need", "please", "would", "could"}

\* generateTitleFromPrompt
generateTitleFromPrompt(prompt, type) ==
    LET words == split(prompt, "")
        keyWords == SelectSeq(words, LAMBDA word :
                        Len(word) > 3 /\ toLowerCase(word) \notin StopWords)
        firstTwo == SubSeq(keyWords, 1, IF Len(keyWords) < 2 THEN Len(keyWords) ELSE 2)
        selectedWords == [i \in 1..Len(firstTwo) |->
                            toUpperChar(SubSeq(firstTwo[i], 1, 1))
                                \o SubSeq(firstTwo[i], 2, Len(firstTwo[i]))]
        suffix == CASE type = "yoga" -> " Yoga Flow"
                    [] type = "strength" -> " Strength Training"
                    [] type = "cardio" -> " Cardio Workout"
                    [] type = "meditation" -> " Meditation"
                    [] type = "pilates" -> " Pilates Routine"
                    [] OTHER -> " Wellness Routine"
    IN  join(selectedWords) \o suffix

\* the routine generateRoutineFromPrompt builds
GeneratedRoutine(prompt, seed) ==
    LET routineType == extractRoutineType(prompt)
        generatedCards == getMockCardsForType(routineType, seed)
        routineCards == [index \in 1..Len(generatedCards) |->
                            [card |-> generatedCards[index], order |-> index]]
    IN  [id |-> generateMockId(seed, 0),
         title |-> generateTitleFromPrompt(prompt, routineType),
         description |-> prompt,
         cards |-> routineCards,
         isPublic |-> FALSE,
         totalDuration |-> calculateTotalDuration(routineCards)]

\* generateRoutineFromPrompt
generateRoutineFromPrompt(prompt, seed) ==
    /\ generated' = GeneratedRoutine(prompt, seed)
    /\ UNCHANGED <<activeRoutine, routines, rendered, now, op>>

\* the mock repository generateRoutineFromRepository searches; the article has
\* neither thumbnail nor duration
mockRepositoryData(seed) ==
    << [id |-> generateMockId(seed, 1), title |-> "Morning Yoga Flow",
        description |-> "Gentle yoga sequence to start your day",
        source_type |-> "video", thumbnail |-> "https://via.placeholder.com/300x200",
        source_url |-> "https://youtube.com/watch?v=mockId1", duration |-> 600,
        tags |-> <<"yoga", "morning">>],
       [id |-> generateMockId(seed, 2), title |-> "HIIT Workout",
        description |-> "20-minute high intensity workout",
        source_type |-> "video", thumbnail |-> "https://via.placeholder.com/300x200",
        source_url |-> "https://youtube.com/watch?v=mockId2", duration |-> 1200,
        tags |-> <<"hiit", "cardio">>],
       [id |-> generateMockId(seed, 3), title |-> "Meditation Practice",
        description |-> "Mindfulness meditation guide",
        source_type |-> "article",
        source_url |-> "https://medium.com/mockId3",
        tags |-> <<"meditation", "mindfulness">>] >>

\* Array.prototype.slice(0, end): a negative end counts from the end of the array
slice(arr, end) ==
    LET to == IF end < 0 THEN (IF Len(arr) + end < 0 THEN 0 ELSE Len(arr) + end)
              ELSE IF end > Len(arr) THEN Len(arr) ELSE end
    IN  SubSeq(arr, 1, to)

\* the filter predicate of generateRoutineFromRepository
termMatches(item, term) ==
    \/ includes(toLowerCase(item.title), term)
    \/ includes(toLowerCase(item.description), term)
    \/ \E t \in 1..Len(item.tags) : includes(toLowerCase(item.tags[t]), term)

\* the Card generateRoutineFromRepository makes of a repository item
RepositoryCard(item) ==
    [x \in (DOMAIN item \ {"source_type", "source_url"}) \cup {"sourceType", "sourceUrl", "cues"} |->
        CASE x = "sourceType" -> item.source_type
          [] x = "sourceUrl" -> item.source_url
          [] x = "cues" -> <<>>
          [] OTHER -> item[x]]

\* the routine with the first cards keeps the last ones instead
RepositoryRoutine_lastCards(searchTerm, maxCards, seed) ==
    LET filteredContent ==
            IF searchTerm # ""
            THEN SelectSeq(mockRepositoryData(seed),
                           LAMBDA item : termMatches(item, toLowerCase(searchTerm)))
            ELSE mockRepositoryData(seed)
        kept == Len(slice(filteredContent, maxCards))
        limitedContent == SubSeq(filteredContent, Len(filteredContent) - kept + 1,
                                 Len(filteredContent))
        routineCards == [index \in 1..Len(limitedContent) |->
                            [card |-> RepositoryCard(limitedContent[index]), order |-> index]]
    IN  [id |-> generateMockId(seed, 4),
         title |-> IF searchTerm # "" THEN searchTerm \o " Routine" ELSE "Custom Routine",
         description |-> "Routine created from " \o ToString(Len(routineCards)) \o " saved items",
         cards |-> routineCards,
         isPublic |-> FALSE,
         totalDuration |-> calculateTotalDuration(routineCards)]

\* the routine generateRoutineFromRepository builds
RepositoryRoutine(searchTerm, maxCards, seed) ==
    LET filteredContent ==
            IF searchTerm # ""
            THEN SelectSeq(mockRepositoryData(seed),
                           LAMBDA item : termMatches(item, toLowerCase(searchTerm)))
            ELSE mockRepositoryData(seed)
        limitedContent == slice(filteredContent, maxCards)
        routineCards == [index \in 1..Len(limitedContent) |->
                            [card |-> RepositoryCard(limitedContent[index]), order |-> index]]
    IN  [id |-> generateMockId(seed, 4),
         title |-> IF searchTerm # "" THEN searchTerm \o " Routine" ELSE "Custom Routine",
         description |-> "Routine created from " \o ToString(Len(routineCards)) \o " saved items",
         cards |-> routineCards,
         isPublic |-> FALSE,
         totalDuration |-> calculateTotalDuration(routineCards)]

\* generateRoutineFromRepository
generateRoutineFromRepository(searchTerm, maxCards, seed) ==
    /\ generated' = RepositoryRoutine(searchTerm, maxCards, seed)
    /\ op' = [name |-> "generateRoutineFromRepository", searchTerm |-> searchTerm,
              maxCards |-> maxCards, seed |-> seed]
    /\ UNCHANGED <<activeRoutine, routines, rendered, now>>

(***************************************************************************)
(* RoutineProvider (context/RoutineContext.tsx).  Its functions read the   *)
(* activeRoutine and routines of the render that created them (rendered)   *)
(* and write through setRoutines / setActiveRoutine.                       *)
(***************************************************************************)
IsRoutine(r) == "id" \in DOMAIN r

\* routines.find(r => r.id === routineId), or NoRoutine
FindRoutine(list, routineId) ==
    IF \E i \in 1..Len(list) : list[i].id = routineId
    THEN list[CHOOSE i \in 1..Len(list) :
                /\ list[i].id = routineId
                /\ \A j \in 1..(i - 1) : list[j].id # routineId]
    ELSE NoRoutine

\* loadRoutine's lookup: the active routine when it matches, else the one in routines
loadRoutineResult(routineId) ==
    IF IsRoutine(rendered.activeRoutine) /\ rendered.activeRoutine.id = routineId
    THEN rendered.activeRoutine
    ELSE FindRoutine(rendered.routines, routineId)

\* loadRoutine
loadRoutine(routineId) ==
    LET found == loadRoutineResult(routineId)
    IN  /\ IF IsRoutine(found)
                /\ ~(IsRoutine(rendered.activeRoutine) /\ rendered.activeRoutine.id = routineId)
             THEN activeRoutine' = found
             ELSE UNCHANGED activeRoutine
        /\ op' = [name |-> "loadRoutine",
                  returned |-> IF IsRoutine(found) THEN "routine" ELSE "null"]
        /\ UNCHANGED <<routines, now, generated>>

\* the targetRoutine of addCardToRoutine, removeCardFromRoutine and reorderCards:
\* the active routine or the one in routines, else what loadRoutine finds
TargetRoutine(routineId) ==
    IF IsRoutine(rendered.activeRoutine) /\ rendered.activeRoutine.id = routineId
    THEN rendered.activeRoutine
    ELSE IF IsRoutine(FindRoutine(rendered.routines, routineId))
    THEN FindRoutine(rendered.routines, routineId)
    ELSE loadRoutineResult(routineId)

\* saveRoutine: the routine object it builds from the fields it copies
SavedRoutine(routine) ==
    [id |-> IF "id" \in DOMAIN routine THEN routine.id ELSE now,
     title |-> IF "title" \in DOMAIN routine /\ routine.title # ""
               THEN routine.title ELSE "Untitled Routine",
     cards |-> IF "cards" \in DOMAIN routine THEN routine.cards ELSE <<>>]

\* saveRoutine: setRoutines(prev => ...) and setActiveRoutine(savedRoutine)
saveRoutineUpdate(routine) ==
    LET savedRoutine == SavedRoutine(routine)
    IN  /\ routines' =
              IF \E i \in 1..Len(routines) : routines[i].id = savedRoutine.id
              THEN LET index == CHOOSE i \in 1..Len(routines) :
                                    /\ routines[i].id = savedRoutine.id
                                    /\ \A j \in 1..(i - 1) : routines[j].id # savedRoutine.id
                   IN  [routines EXCEPT ![index] = savedRoutine]
              ELSE Append(routines, savedRoutine)
        /\ activeRoutine' = savedRoutine

\* saveRoutine
saveRoutine(routine) ==
    /\ saveRoutineUpdate(routine)
    /\ op' = [name |-> "saveRoutine", returned |-> "routine"]
    /\ UNCHANGED <<now, generated>>

\* addCardToRoutine
addCardToRoutine(routineId, card) ==
    LET targetRoutine == TargetRoutine(routineId)
    IN  IF ~IsRoutine(targetRoutine)
        THEN /\ op' = [name |-> "addCardToRoutine", returned |-> "null", arg |-> card,
                       before |-> <<>>]
             /\ UNCHANGED <<activeRoutine, routines, now, generated>>
        ELSE /\ saveRoutineUpdate([targetRoutine EXCEPT !.cards = Append(@, card)])
             /\ op' = [name |-> "addCardToRoutine", returned |-> "routine", arg |-> card,
                       before |-> targetRoutine.cards]
             /\ UNCHANGED <<now, generated>>

\* removeCardFromRoutine
removeCardFromRoutine(routineId, cardId) ==
    LET targetRoutine == TargetRoutine(routineId)
    IN  IF ~IsRoutine(targetRoutine)
        THEN /\ op' = [name |-> "removeCardFromRoutine", returned |-> "null",
                       arg |-> cardId, before |-> <<>>]
             /\ UNCHANGED <<activeRoutine, routines, now, generated>>
        ELSE /\ saveRoutineUpdate([targetRoutine EXCEPT
                    !.cards = SelectSeq(@, LAMBDA c : c.id # cardId)])
             /\ op' = [name |-> "removeCardFromRoutine", returned |-> "routine",
                       arg |-> cardId, before |-> targetRoutine.cards]
             /\ UNCHANGED <<now, generated>>

\* reorderCards: cardIds.map(id => cardMap.get(id)).filter(card => card !== undefined);
\* new Map(...) keeps, for an id that occurs twice, the last card with it
ReorderedCards(routineCards, cardIds) ==
    LET known == SelectSeq(cardIds, LAMBDA id : \E i \in 1..Len(routineCards) :
                                                    routineCards[i].id = id)
    IN  [k \in 1..Len(known) |->
            routineCards[CHOOSE i \in 1..Len(routineCards) :
                            /\ routineCards[i].id = known[k]
                            /\ \A j \in (i + 1)..Len(routineCards) :
                                    routineCards[j].id # known[k]]]

\* reorderCards
reorderCards(routineId, cardIds) ==
    LET targetRoutine == TargetRoutine(routineId)
    IN  IF ~IsRoutine(targetRoutine)
        THEN /\ op' = [name |-> "reorderCards", returned |-> "false", arg |-> cardIds,
                       before |-> <<>>]
             /\ UNCHANGED <<activeRoutine, routines, now, generated>>
        ELSE /\ saveRoutineUpdate([targetRoutine EXCEPT
                    !.cards = ReorderedCards(@, cardIds)])
             /\ op' = [name |-> "reorderCards", returned |-> "true", arg |-> cardIds,
                       before |-> targetRoutine.cards]
             /\ UNCHANGED <<now, generated>>

\* Date.now() moves on
timePasses ==
    /\ now < MaxClock
    /\ now' = now + 1
    /\ UNCHANGED <<activeRoutine, routines, op, generated>>

\* the provider renders again: its functions close over the current state
ReRender == rendered' = [activeRoutine |-> activeRoutine', routines |-> routines']

\* the render React schedules after setRoutines / setActiveRoutine: until it has
\* run, callers hold the functions of the render before
render ==
    /\ rendered # [activeRoutine |-> activeRoutine, routines |-> routines]
    /\ rendered' = [activeRoutine |-> activeRoutine, routines |-> routines]
    /\ UNCHANGED <<activeRoutine, routines, now, op, generated>>

(***************************************************************************)
(* Continue to the tag screen, in the two BuilderScreen components         *)
(***************************************************************************)
\* the routineToSave of BuilderScreen.handleContinueToTag (unnamed/part_002)
routineToSave ==
    LET base == IF IsRoutine(rendered.activeRoutine) THEN rendered.activeRoutine
                ELSE [title |-> ""]
    IN  [x \in DOMAIN base \cup {"title", "cards"} |->
            CASE x = "title" -> IF base.title # "" THEN base.title ELSE "New Routine"
              [] x = "cards" -> cards
              [] OTHER -> base[x]]

\* BuilderScreen.handleContinueToTag (unnamed/part_002): saveRoutine of the
\* provider, which resolves without suspending, then navigation.navigate
handleContinueToTag ==
    /\ navigation.route = "Builder"
    /\ IF Len(cards) = 0
       THEN /\ alert' = "No Cards"
            /\ UNCHANGED <<contextVars, navigation>>
       ELSE /\ saveRoutineUpdate(routineToSave)
            /\ op' = [name |-> "saveRoutine", returned |-> "routine"]
            /\ ReRender
            /\ navigation' = [route |-> "TagRoutine",
                              routineId |-> SavedRoutine(routineToSave).id]
            /\ UNCHANGED <<alert, now, generated>>
    /\ UNCHANGED <<agent, service, user, cards, isLoading, savedContent, call, edit>>

\* handleContinueToTag of screens/RoutineBuilder/BuilderScreen.tsx
RoutineBuilderHandleContinueToTag ==
    /\ navigation.route = "Builder"
    /\ IF Len(cards) = 0
       THEN /\ alert' = "No Cards"
            /\ UNCHANGED navigation
       ELSE /\ navigation' = [route |-> "TagRoutine"]
            /\ UNCHANGED alert
    /\ UNCHANGED <<agent, service, user, cards, isLoading, savedContent, call, edit>>
    /\ UNCHANGED contextVars

\* navigation.goBack() on the tag screen
goBack ==
    /\ navigation.route = "TagRoutine"
    /\ navigation' = [route |-> "Builder"]

(***************************************************************************)
(* PerformRoutineScreen (screens/RoutinePlayback/PerformRoutineScreen.tsx) *)
(***************************************************************************)
\* playedCards[currentIndex].duration, 0 when the card has none
DurationAt(index) == playedCards[index + 1].duration

\* the timer effect without the cleanup of the render before
timerEffect_noCleanup ==
    IF DurationAt(currentIndex') # 0 /\ isPlaying'
    THEN /\ timeLeft' = DurationAt(currentIndex')
         /\ timerRef' = TRUE
         /\ ticks' = 0
         /\ intervals' = (IF timerRef THEN intervals - 1 ELSE intervals) + 1
    ELSE /\ timerRef' = timerRef
         /\ ticks' = 0
         /\ intervals' = intervals

\* the timer effect, run after a render in which currentIndex or isPlaying
\* changed: the cleanup clears the interval of the render before, and the body
\* sets timeLeft and schedules a new interval when the card has a duration and
\* the session is playing
timerEffect ==
    LET cleared == IF timerRef THEN intervals - 1 ELSE intervals
    IN  IF DurationAt(currentIndex') # 0 /\ isPlaying'
        THEN /\ timeLeft' = DurationAt(currentIndex')
             /\ timerRef' = TRUE
             /\ ticks' = 0
             /\ intervals' = cleared + 1
        ELSE /\ timerRef' = FALSE
             /\ ticks' = 0
             /\ intervals' = cleared

\* the interval callback with the expiry test moved one second later
timerTick_expiresAtZero ==
    /\ screen = "RoutinePlayback"
    /\ intervals > 0
    /\ event' = "timerTick"
    /\ IF timeLeft <= 0
       THEN /\ IF currentIndex < Len(playedCards) - 1
                THEN /\ currentIndex' = currentIndex + 1
                     /\ UNCHANGED <<isPlaying, routineCompleteAlert>>
                ELSE /\ isPlaying' = FALSE
                     /\ routineCompleteAlert' = TRUE
                     /\ UNCHANGED currentIndex
            /\ timerEffect
            /\ IF timerRef' THEN TRUE ELSE timeLeft' = 0
       ELSE /\ timeLeft' = timeLeft - 1
            /\ ticks' = ticks + 1
            /\ UNCHANGED <<currentIndex, isPlaying, timerRef, intervals, routineCompleteAlert>>
    /\ UNCHANGED <<screen, playedCards, performVars>>

\* the interval callback that stops the session at every expiry
timerTick_stopsAtEveryExpiry ==
    /\ screen = "RoutinePlayback"
    /\ intervals > 0
    /\ event' = "timerTick"
    /\ IF timeLeft <= 1
       THEN /\ isPlaying' = FALSE
            /\ routineCompleteAlert' = (currentIndex = Len(playedCards) - 1)
            /\ UNCHANGED currentIndex
            /\ timerEffect
            /\ timeLeft' = 0
       ELSE /\ timeLeft' = timeLeft - 1
            /\ ticks' = ticks + 1
            /\ UNCHANGED <<currentIndex, isPlaying, timerRef, intervals, routineCompleteAlert>>
    /\ UNCHANGED <<screen, playedCards, performVars>>

\* the interval callback: setTimeLeft(prev => ...)
timerTick ==
    /\ screen = "RoutinePlayback"
    /\ intervals > 0
    /\ event' = "timerTick"
    /\ IF timeLeft <= 1
       THEN /\ IF currentIndex < Len(playedCards) - 1
                THEN /\ currentIndex' = currentIndex + 1
                     /\ UNCHANGED <<isPlaying, routineCompleteAlert>>
                ELSE /\ isPlaying' = FALSE
                     /\ routineCompleteAlert' = TRUE
                     /\ UNCHANGED currentIndex
            /\ timerEffect
            /\ IF timerRef' THEN TRUE ELSE timeLeft' = 0
       ELSE /\ timeLeft' = timeLeft - 1
            /\ ticks' = ticks + 1
            /\ UNCHANGED <<currentIndex, isPlaying, timerRef, intervals, routineCompleteAlert>>
    /\ UNCHANGED <<screen, playedCards, performVars>>

\* handleNext without its test for the last card
handleNext_pastTheEnd ==
    /\ screen = "RoutinePlayback"
    /\ event' = "handleNext"
    /\ isPlaying' = FALSE
    /\ currentIndex' = currentIndex + 1
    /\ timerRef' = FALSE
    /\ ticks' = 0
    /\ intervals' = 0
    /\ UNCHANGED <<timeLeft, routineCompleteAlert>>
    /\ UNCHANGED <<screen, playedCards, performVars>>

\* handleNext
handleNext ==
    /\ screen = "RoutinePlayback"
    /\ event' = "handleNext"
    /\ IF currentIndex < Len(playedCards) - 1
       THEN /\ isPlaying' = FALSE
            /\ currentIndex' = currentIndex + 1
            /\ timerEffect
            /\ UNCHANGED <<timeLeft, routineCompleteAlert>>
       ELSE /\ routineCompleteAlert' = TRUE
            /\ UNCHANGED <<currentIndex, isPlaying, timeLeft, timerRef, ticks, intervals>>
    /\ UNCHANGED <<screen, playedCards, performVars>>

\* handlePrevious that leaves isPlaying as it is
handlePrevious_keepsPlaying ==
    /\ screen = "RoutinePlayback"
    /\ event' = "handlePrevious"
    /\ IF currentIndex > 0
       THEN /\ UNCHANGED isPlaying
            /\ currentIndex' = currentIndex - 1
            /\ timerEffect
            /\ IF timerRef' THEN TRUE ELSE UNCHANGED timeLeft
       ELSE UNCHANGED <<currentIndex, isPlaying, timeLeft, timerRef, ticks, intervals>>
    /\ UNCHANGED <<screen, playedCards, routineCompleteAlert, performVars>>

\* handlePrevious
handlePrevious ==
    /\ screen = "RoutinePlayback"
    /\ event' = "handlePrevious"
    /\ IF currentIndex > 0
       THEN /\ isPlaying' = FALSE
            /\ currentIndex' = currentIndex - 1
            /\ timerEffect
            /\ UNCHANGED timeLeft
       ELSE UNCHANGED <<currentIndex, isPlaying, timeLeft, timerRef, ticks, intervals>>
    /\ UNCHANGED <<screen, playedCards, routineCompleteAlert, performVars>>

\* toggleTimer; its button is rendered only when the current card has a duration
toggleTimer ==
    /\ screen = "RoutinePlayback"
    /\ DurationAt(currentIndex) # 0
    /\ event' = "toggleTimer"
    /\ isPlaying' = ~isPlaying
    /\ UNCHANGED currentIndex
    /\ timerEffect
    /\ IF timerRef' THEN TRUE ELSE UNCHANGED timeLeft
    /\ UNCHANGED <<screen, playedCards, routineCompleteAlert, performVars>>

\* handleExit confirmed (navigation.goBack()): the screen is unmounted and the
\* cleanup of the timer effect clears the interval held by timerRef
handleExit ==
    /\ screen = "RoutinePlayback"
    /\ event' = "handleExit"
    /\ screen' = "none"
    /\ timerRef' = FALSE
    /\ intervals' = (IF timerRef THEN intervals - 1 ELSE intervals)
    /\ UNCHANGED <<playedCards, currentIndex, isPlaying, timeLeft, ticks, routineCompleteAlert>>
    /\ UNCHANGED performVars

(***************************************************************************)
(* PerformRoutineScreen (screens/perform/PerformRoutineScreen.tsx)         *)
(***************************************************************************)
\* the timer effect, run after a render in which isTimerRunning changed: the
\* cleanup clears the interval the render before scheduled, and the body
\* schedules one when the timer is running
stopwatchEffect ==
    LET cleared == IF isTimerRunning THEN intervals - 1 ELSE intervals
    IN  intervals' = IF isTimerRunning' THEN cleared + 1 ELSE cleared

\* the interval callback of the timer effect: setTimer(prevTimer => prevTimer + 1)
stopwatchTick ==
    /\ screen = "perform"
    /\ intervals > 0
    /\ timer < MaxTimer
    /\ event' = "stopwatchTick"
    /\ timer' = timer + 1
    /\ UNCHANGED <<sections, currentSection, currentExercise, isTimerRunning, isCompleted>>
    /\ UNCHANGED <<screen, intervals, playbackVars>>

\* handleStartTimer; the button is rendered while the timer is not running
handleStartTimer ==
    /\ screen = "perform"
    /\ ~isCompleted /\ ~isTimerRunning
    /\ event' = "handleStartTimer"
    /\ isTimerRunning' = TRUE
    /\ stopwatchEffect
    /\ UNCHANGED <<sections, currentSection, currentExercise, timer, isCompleted>>
    /\ UNCHANGED <<screen, playbackVars>>

\* handlePauseTimer; the button is rendered while the timer is running
handlePauseTimer ==
    /\ screen = "perform"
    /\ ~isCompleted /\ isTimerRunning
    /\ event' = "handlePauseTimer"
    /\ isTimerRunning' = FALSE
    /\ stopwatchEffect
    /\ UNCHANGED <<sections, currentSection, currentExercise, timer, isCompleted>>
    /\ UNCHANGED <<screen, playbackVars>>

\* handleNextExercise; the button is not rendered in the completed view
handleNextExercise ==
    /\ screen = "perform"
    /\ ~isCompleted
    /\ event' = "handleNextExercise"
    /\ IF currentExercise < sections[currentSection + 1] - 1
       THEN /\ currentExercise' = currentExercise + 1
            /\ UNCHANGED <<currentSection, isCompleted, isTimerRunning, intervals>>
       ELSE IF currentSection < Len(sections) - 1
       THEN /\ currentSection' = currentSection + 1
            /\ currentExercise' = 0
            /\ UNCHANGED <<isCompleted, isTimerRunning, intervals>>
       ELSE /\ isCompleted' = TRUE
            /\ isTimerRunning' = FALSE
            /\ stopwatchEffect
            /\ UNCHANGED <<currentSection, currentExercise>>
    /\ UNCHANGED <<sections, timer>>
    /\ UNCHANGED <<screen, playbackVars>>

\* navigation.goBack(), from the header or from handleFinishRoutine in the
\* completed view: the screen is unmounted and the cleanup of the timer effect
\* clears the interval its last run scheduled
handleFinishRoutine ==
    /\ screen = "perform"
    /\ event' = "handleFinishRoutine"
    /\ screen' = "none"
    /\ intervals' = (IF isTimerRunning THEN intervals - 1 ELSE intervals)
    /\ UNCHANGED performVars
    /\ UNCHANGED playbackVars

\* the interval of the timer effect is due: 1000 ms have passed since
\* setInterval scheduled it or since it last fired
tickDue == intervals > 0 /\ sinceScheduled = UnitsPerInterval

\* wall-clock time passes by one unit on the perform screen; a due callback
\* runs before more time passes
clockAdvances ==
    /\ screen = "perform"
    /\ ~tickDue
    /\ isTimerRunning
    /\ runningTime < MaxRunning
    /\ runningTime' = runningTime + 1
    /\ sinceScheduled' = sinceScheduled + 1
    /\ UNCHANGED screenVars

\* the clock of the interval across a step of the perform screen: setInterval
\* in the timer effect starts a new period, a callback starts the next one
clockAfter(step) ==
    /\ sinceScheduled' = IF step \in {"schedule", "fire"} THEN 0 ELSE sinceScheduled
    /\ UNCHANGED runningTime

(***************************************************************************)
(* cueAgent (services/agentService.ts) and CardEditorModal                 *)
(* (components/Card/ContentCard.tsx)                                       *)
(***************************************************************************)
\* cueAgent: the mock returns the same three cues whatever it is given
cueAgent(video) ==
    << [id |-> "auto1", label |-> "Keep your core tight", type |-> "form", timestamp |-> 15],
       [id |-> "auto2", label |-> "Breathe with each movement", type |-> "breathing",
        timestamp |-> 30],
       [id |-> "auto3", label |-> "Focus on the muscle contraction", type |-> "focus",
        timestamp |-> 45] >>

NoCard == [none |-> TRUE]      \* null where a card is expected
NoCueEdit == [name |-> "none"]

\* the effect on [visible, card]: the modal opens on a card, copies its cues
\* and, when the card has a media_url, calls fetchSuggestedCues up to its await
openEditor(card) ==
    /\ Cardinality(fetching) < MaxFetches
    /\ editedCard' = card
    /\ cues' = (IF "cues" \in DOMAIN card THEN card.cues ELSE <<>>)
    /\ cueEdit' = NoCueEdit
    /\ IF "media_url" \in DOMAIN card /\ card.media_url # ""
       THEN /\ loading' = TRUE
            /\ fetching' = fetching \cup {card}
       ELSE UNCHANGED <<loading, fetching>>
    /\ UNCHANGED <<newCue, suggestedCues, cueCalls>>

\* fetchSuggestedCues from its await on: cueAgent has returned
fetchSuggestedCuesSettles(cardData) ==
    /\ cardData \in fetching
    /\ suggestedCues' = cueAgent(cardData)
    /\ loading' = FALSE
    /\ fetching' = fetching \ {cardData}
    /\ cueCalls' = cueCalls \cup
            {[title |-> cardData.title,
              labels |-> [i \in 1..Len(cueAgent(cardData)) |-> cueAgent(cardData)[i].label]]}
    /\ UNCHANGED <<editedCard, cues, newCue, cueEdit>>

\* onChangeText={setNewCue}
setNewCue(text) ==
    /\ editedCard # NoCard
    /\ newCue' = text
    /\ UNCHANGED <<editedCard, cues, loading, suggestedCues, fetching, cueCalls, cueEdit>>

\* addCue
addCue ==
    /\ editedCard # NoCard
    /\ Len(cues) < MaxCues
    /\ IF trim(newCue) = ""
       THEN UNCHANGED <<cues, newCue, cueEdit>>
       ELSE LET newCueObj == [id |-> "temp-" \o ToString(now), label |-> newCue, type |-> "form"]
            IN  /\ cues' = cues \o <<newCueObj>>
                /\ newCue' = ""
                /\ cueEdit' = [name |-> "addCue", cue |-> newCueObj]
    /\ UNCHANGED <<editedCard, loading, suggestedCues, fetching, cueCalls>>

\* addSuggestedCue with the labels compared without regard to case
addSuggestedCue_ignoringCase(cue) ==
    /\ editedCard # NoCard
    /\ LET exists == \E i \in 1..Len(cues) :
                        toLowerCase(cues[i].label) = toLowerCase(cue.label)
       IN  IF ~exists
           THEN /\ cues' = cues \o <<[cue EXCEPT !.id = "temp-" \o ToString(now)]>>
                /\ suggestedCues' = SelectSeq(suggestedCues, LAMBDA c : c.label # cue.label)
           ELSE UNCHANGED <<cues, suggestedCues>>
    /\ cueEdit' = [name |-> "addSuggestedCue", cue |-> cue]
    /\ UNCHANGED <<editedCard, newCue, loading, fetching, cueCalls>>

\* addSuggestedCue
addSuggestedCue(cue) ==
    /\ editedCard # NoCard
    /\ LET exists == \E i \in 1..Len(cues) : cues[i].label = cue.label
       IN  IF ~exists
           THEN /\ cues' = cues \o <<[cue EXCEPT !.id = "temp-" \o ToString(now)]>>
                /\ suggestedCues' = SelectSeq(suggestedCues, LAMBDA c : c.label # cue.label)
           ELSE UNCHANGED <<cues, suggestedCues>>
    /\ cueEdit' = [name |-> "addSuggestedCue", cue |-> cue]
    /\ UNCHANGED <<editedCard, newCue, loading, fetching, cueCalls>>

\* removeCue
removeCue(id) ==
    /\ editedCard # NoCard
    /\ cues' = SelectSeq(cues, LAMBDA cue : cue.id # id)
    /\ cueEdit' = [name |-> "removeCue", id |-> id]
    /\ UNCHANGED <<editedCard, newCue, loading, suggestedCues, fetching, cueCalls>>

(***************************************************************************)
(* SegmentSelector (unnamed/part_012) inside CardEditorModal.  It renders  *)
(* the Video and the two sliders only when isLoading is false, and only    *)
(* handleVideoLoad, the onLoad callback of that Video, sets isLoading to   *)
(* false: after the mount no handler of the selector is ever enabled.      *)
(***************************************************************************)
\* a || b on numbers that may be absent
orElse(record, field, default) ==
    IF field \in DOMAIN record /\ record[field] # 0 THEN record[field] ELSE default

\* CardEditorModal.handleSegmentChange
handleSegmentChange(newStartTime, newEndTime) ==
    IF editedCard # NoCard
    THEN editedCard' = [x \in DOMAIN editedCard \cup {"startTime", "endTime", "duration"} |->
                            CASE x = "startTime" -> newStartTime
                              [] x = "endTime" -> newEndTime
                              [] x = "duration" -> newEndTime - newStartTime
                              [] OTHER -> editedCard[x]]
    ELSE UNCHANGED editedCard

\* the selector mounts under {editedCard.media_url && ...}: its useState
\* initial values, then the effect on [startTime, endTime]
mountSegmentSelector ==
    /\ editedCard # NoCard
    /\ "media_url" \in DOMAIN editedCard /\ editedCard.media_url # ""
    /\ ~selectorMounted
    /\ selectorMounted' = TRUE
    /\ startTime' = orElse(editedCard, "startTime", 0)
    /\ endTime' = orElse([v |-> orElse(editedCard, "endTime", 0)], "v", 60)
    /\ videoDuration' = 0
    /\ selectorIsLoading' = TRUE
    /\ handleSegmentChange(startTime', endTime')
    /\ UNCHANGED <<cues, newCue, loading, suggestedCues, fetching, cueCalls, cueEdit>>

\* the editor moves to a card: a mounted selector keeps its state while the
\* card has a media_url and is unmounted when it has none
selectorAfterOpen(card) ==
    IF "media_url" \in DOMAIN card /\ card.media_url # ""
    THEN UNCHANGED selectorVars
    ELSE /\ selectorMounted' = FALSE
         /\ UNCHANGED <<startTime, endTime, videoDuration, selectorIsLoading>>

min(a, b) == IF a < b THEN a ELSE b
max(a, b) == IF a > b THEN a ELSE b

\* SegmentSelector.handleVideoLoad, onLoad of the Video
handleVideoLoad(status) ==
    /\ selectorMounted /\ ~selectorIsLoading
    /\ IF status.isLoaded
       THEN /\ videoDuration' = status.duration
            /\ selectorIsLoading' = FALSE
            /\ IF orElse(editedCard, "startTime", 0) = 0 /\ orElse(editedCard, "endTime", 0) = 0
               THEN /\ endTime' = min(60, status.duration)
                    /\ handleSegmentChange(0, endTime')
               ELSE IF orElse(editedCard, "endTime", 0) > status.duration
               THEN /\ endTime' = status.duration
                    /\ handleSegmentChange(startTime, status.duration)
               ELSE UNCHANGED <<endTime, editedCard>>
       ELSE /\ selectorIsLoading' = FALSE
            /\ UNCHANGED <<videoDuration, endTime, editedCard>>
    /\ UNCHANGED <<selectorMounted, startTime, cues, newCue, loading, suggestedCues,
                   fetching, cueCalls, cueEdit>>

\* SegmentSelector.handleStartTimeChange, onValueChange of the first slider,
\* with the effect on [startTime, endTime]
handleStartTimeChange(value) ==
    /\ selectorMounted /\ ~selectorIsLoading
    /\ startTime' = max(0, min(value, endTime - 1))
    /\ IF startTime' # startTime THEN handleSegmentChange(startTime', endTime)
                                 ELSE UNCHANGED editedCard
    /\ UNCHANGED <<selectorMounted, endTime, videoDuration, selectorIsLoading, cues, newCue,
                   loading, suggestedCues, fetching, cueCalls, cueEdit>>

\* SegmentSelector.handleEndTimeChange, onValueChange of the second slider,
\* with the effect on [startTime, endTime]
handleEndTimeChange(value) ==
    /\ selectorMounted /\ ~selectorIsLoading
    /\ endTime' = max(startTime + 1, min(value, videoDuration))
    /\ IF endTime' # endTime THEN handleSegmentChange(startTime, endTime')
                             ELSE UNCHANGED editedCard
    /\ UNCHANGED <<selectorMounted, startTime, videoDuration, selectorIsLoading, cues, newCue,
                   loading, suggestedCues, fetching, cueCalls, cueEdit>>

(***************************************************************************)
(* Segmentation: imports under either intakeAgent and any service answer   *)
(***************************************************************************)
InitBuilder ==
    /\ cards = <<>>
    /\ alert = "none"
    /\ isLoading = FALSE
    /\ savedContent = <<>>
    /\ call = NoCall
    /\ edit = NoEdit

InitContext ==
    /\ activeRoutine = NoRoutine
    /\ routines = <<>>
    /\ rendered = [activeRoutine |-> NoRoutine, routines |-> <<>>]
    /\ now = 1
    /\ op = NoOp
    /\ generated = NoRoutine

\* no playback screen is mounted
InitNoScreen ==
    /\ screen = "none"
    /\ event = "none"
    /\ intervals = 0
    /\ routineCompleteAlert = FALSE
    /\ playedCards = <<>>
    /\ currentIndex = 0
    /\ isPlaying = FALSE
    /\ timeLeft = 0
    /\ timerRef = FALSE
    /\ ticks = 0
    /\ sections = <<>>
    /\ currentSection = 0
    /\ currentExercise = 0
    /\ timer = 0
    /\ isTimerRunning = FALSE
    /\ isCompleted = FALSE

(***************************************************************************)
(* repositoryService (services/repositoryService.ts): the module variable  *)
(* platformConnections and the three async functions that update it after  *)
(* their delay                                                             *)
(***************************************************************************)
AllPlatforms == <<"instagram", "twitter", "facebook", "youtube">>

NoSync == [name |-> "none"]

\* { ...conn, field: value, ... }
spread(conn, fields) ==
    [x \in DOMAIN conn \cup DOMAIN fields |-> IF x \in DOMAIN fields THEN fields[x] ELSE conn[x]]

\* platformConnections.map(conn => conn.platform === platform ? {...} : conn); the
\* object literal starts from ...conn (spreadsConn) or from nothing, then sets fields
mapConnection(platform, spreadsConn, fields) ==
    [i \in 1..Len(platformConnections) |->
        IF platformConnections[i].platform = platform
        THEN IF spreadsConn THEN spread(platformConnections[i], fields) ELSE fields
        ELSE platformConnections[i]]

\* platformConnections.find(conn => conn.platform === platform)
findConnection(platform) ==
    platformConnections[CHOOSE i \in 1..Len(platformConnections) :
                            platformConnections[i].platform = platform]

\* connectToPlatform up to its await
connectToPlatform(platform) ==
    /\ Cardinality(inFlight) < MaxInFlight
    /\ [fn |-> "connectToPlatform", platform |-> platform] \notin inFlight
    /\ inFlight' = inFlight \cup {[fn |-> "connectToPlatform", platform |-> platform]}
    /\ UNCHANGED <<platformConnections, syncResult>>

\* connectToPlatform from its await on
connectToPlatformResumes(platform) ==
    /\ [fn |-> "connectToPlatform", platform |-> platform] \in inFlight
    /\ inFlight' = inFlight \ {[fn |-> "connectToPlatform", platform |-> platform]}
    /\ platformConnections' =
            mapConnection(platform, TRUE,
                [isConnected |-> TRUE, lastSynced |-> "date",
                 username |-> "user_" \o platform])
    /\ UNCHANGED syncResult

\* disconnectFromPlatform up to its await
disconnectFromPlatform(platform) ==
    /\ Cardinality(inFlight) < MaxInFlight
    /\ [fn |-> "disconnectFromPlatform", platform |-> platform] \notin inFlight
    /\ inFlight' = inFlight \cup {[fn |-> "disconnectFromPlatform", platform |-> platform]}
    /\ UNCHANGED <<platformConnections, syncResult>>

\* disconnectFromPlatform from its await on
disconnectFromPlatformResumes(platform) ==
    /\ [fn |-> "disconnectFromPlatform", platform |-> platform] \in inFlight
    /\ inFlight' = inFlight \ {[fn |-> "disconnectFromPlatform", platform |-> platform]}
    /\ platformConnections' =
            mapConnection(platform, FALSE, [platform |-> platform, isConnected |-> FALSE])
    /\ UNCHANGED syncResult

\* syncFromPlatform up to its await: it throws unless the platform is connected
syncFromPlatform(platform) ==
    /\ Cardinality(inFlight) < MaxInFlight
    /\ [fn |-> "syncFromPlatform", platform |-> platform] \notin inFlight
    /\ IF ~findConnection(platform).isConnected
       THEN /\ syncResult' = [name |-> "threw", platform |-> platform]
            /\ UNCHANGED inFlight
       ELSE /\ inFlight' = inFlight \cup {[fn |-> "syncFromPlatform", platform |-> platform]}
            /\ UNCHANGED syncResult
    /\ UNCHANGED platformConnections

\* syncFromPlatform from its await on: count mock cards, then lastSynced
syncFromPlatformResumes(platform, count) ==
    /\ [fn |-> "syncFromPlatform", platform |-> platform] \in inFlight
    /\ inFlight' = inFlight \ {[fn |-> "syncFromPlatform", platform |-> platform]}
    /\ platformConnections' =
            mapConnection(platform, TRUE, [lastSynced |-> "date"])
    /\ syncResult' = [name |-> "returned", platform |-> platform, cards |-> count,
                      connected |-> findConnection(platform).isConnected]

\* the repository service is idle and no platform is connected
InitNoPlatform ==
    /\ platformConnections =
            [i \in 1..Len(AllPlatforms) |-> [platform |-> AllPlatforms[i], isConnected |-> FALSE]]
    /\ inFlight = {}
    /\ syncResult = NoSync

\* no clock is followed
InitNoClock ==
    /\ sinceScheduled = 0
    /\ runningTime = 0

\* the builder screen is the focused route
InitNoNav == navigation = [route |-> "Builder"]

InitNoExtra == InitNoClock /\ InitNoNav /\ InitNoPlatform

\* no SegmentSelector is mounted
InitNoSelector ==
    /\ selectorMounted = FALSE
    /\ startTime = 0
    /\ endTime = 0
    /\ videoDuration = 0
    /\ selectorIsLoading = TRUE

\* the card editor is closed
InitNoEditor ==
    /\ editedCard = NoCard
    /\ cues = <<>>
    /\ newCue = ""
    /\ loading = FALSE
    /\ suggestedCues = <<>>
    /\ fetching = {}
    /\ cueCalls = {}
    /\ cueEdit = NoCueEdit

InitSegment ==
    /\ agent \in {"mock", "api"}
    /\ service \in ServiceAnswers
    /\ user \in {NoUser, "user1"}
    /\ InitBuilder
    /\ InitContext
    /\ InitNoScreen
    /\ InitNoEditor
    /\ InitNoSelector
    /\ InitNoExtra

NextSegment ==
    \/ \E url \in Urls : handleImport(url) /\ UNCHANGED <<contextVars, screenVars, editorVars, selectorVars, extraVars>>
    \/ handleImportSettles /\ UNCHANGED <<contextVars, screenVars, editorVars, selectorVars, extraVars>>

SpecSegment == InitSegment /\ [][NextSegment]_vars

(***************************************************************************)
(* Routine building: imports with the mock intakeAgent, removals, reorders *)
(***************************************************************************)
BuilderUrls == { "https://www.tiktok.com/@u/video/1",
                 "https://www.instagram.com/p/1",
                 "https://Example.com/plan",
                 "youtube.com/watch" }

CardIds(cs) == { cs[i].id : i \in 1..Len(cs) }

\* a card that is not in the card list
UnknownCard == [id |-> "unknown", title |-> "Unknown", sourceType |-> "custom"]

\* the target indexes tried: negative, in range and beyond the end
TargetIndexes == (0 - MaxOvershoot)..(Len(cards) - 1 + MaxOvershoot)

\* a drag result that holds a card the card list does not hold (any more)
StaleDragResults == { [cards EXCEPT ![i] = UnknownCard] : i \in 1..Len(cards) }

InitBuilding ==
    /\ agent = "mock"
    /\ service = ServiceDown
    /\ user \in {NoUser, "user1"}
    /\ InitBuilder
    /\ InitContext
    /\ InitNoScreen
    /\ InitNoEditor
    /\ InitNoSelector
    /\ InitNoExtra

NextBuilding ==
    \/ \E url \in BuilderUrls : handleImport(url) /\ UNCHANGED <<contextVars, screenVars, editorVars, selectorVars, extraVars>>
    \/ handleImportSettles /\ UNCHANGED <<contextVars, screenVars, editorVars, selectorVars, extraVars>>
    \/ \E cardId \in CardIds(cards) \cup {UnknownCard.id} :
            removeCard(cardId) /\ UNCHANGED <<contextVars, screenVars, editorVars, selectorVars, extraVars>>
    \/ \E fromIndex \in 0..(Len(cards) - 1), toIndex \in TargetIndexes :
            BuilderReorderCards(fromIndex, toIndex) /\ UNCHANGED <<contextVars, screenVars, editorVars, selectorVars, extraVars>>
    \/ \E data \in DragResults : handleDragEnd(data) /\ UNCHANGED <<contextVars, screenVars, editorVars, selectorVars, extraVars>>
    \/ \E data \in DragResults \cup StaleDragResults :
            RoutineBuilderHandleDragEnd(data) /\ UNCHANGED <<contextVars, screenVars, editorVars, selectorVars, extraVars>>

SpecBuilding == InitBuilding /\ [][NextBuilding]_vars

(***************************************************************************)
(* Continuing to the tag screen from a builder whose cards are imported    *)
(* and removed                                                             *)
(***************************************************************************)
InitContinue ==
    /\ agent = "mock"
    /\ service = ServiceDown
    /\ user \in {NoUser, "user1"}
    /\ InitBuilder
    /\ InitContext
    /\ InitNoScreen
    /\ InitNoEditor
    /\ InitNoSelector
    /\ InitNoExtra

NextContinue ==
    \/ \E url \in BuilderUrls :
            /\ navigation.route = "Builder"
            /\ handleImport(url)
            /\ UNCHANGED <<contextVars, screenVars, editorVars, selectorVars, extraVars>>
    \/ handleImportSettles
            /\ UNCHANGED <<contextVars, screenVars, editorVars, selectorVars, extraVars>>
    \/ \E cardId \in CardIds(cards) :
            /\ navigation.route = "Builder"
            /\ removeCard(cardId)
            /\ UNCHANGED <<contextVars, screenVars, editorVars, selectorVars, extraVars>>
    \/ handleContinueToTag /\ UNCHANGED <<screenVars, editorVars, selectorVars, clockVars, platformVars>>
    \/ RoutineBuilderHandleContinueToTag
            /\ UNCHANGED <<screenVars, editorVars, selectorVars, clockVars, platformVars>>
    \/ goBack /\ UNCHANGED <<builderVars, contextVars, screenVars, editorVars, selectorVars,
                             clockVars, platformVars>>

SpecContinue == InitContinue /\ [][NextContinue]_vars

(***************************************************************************)
(* Input validation: imports of URLs that parse and of URLs that do not,   *)
(* under either intakeAgent, signed in or not                              *)
(***************************************************************************)
ValidationAnswers == {ServiceDown, [ok |-> TRUE, json |-> <<SegIntro>>]}

InitValidation ==
    /\ agent \in {"mock", "api"}
    /\ service \in ValidationAnswers
    /\ user \in {NoUser, "user1"}
    /\ InitBuilder
    /\ InitContext
    /\ InitNoScreen
    /\ InitNoEditor
    /\ InitNoSelector
    /\ InitNoExtra

NextValidation ==
    \/ \E url \in Urls :
            handleImport(url)
                /\ UNCHANGED <<contextVars, screenVars, editorVars, selectorVars, extraVars>>
    \/ handleImportSettles
            /\ UNCHANGED <<contextVars, screenVars, editorVars, selectorVars, extraVars>>

SpecValidation == InitValidation /\ [][NextValidation]_vars

(***************************************************************************)
(* Repository service: calls for two of the platforms, started at any time *)
(* and resumed in any order                                                *)
(***************************************************************************)
CalledPlatforms == {"instagram", "youtube"}

InitPlatforms ==
    /\ agent = "mock"
    /\ service = ServiceDown
    /\ user = NoUser
    /\ InitBuilder
    /\ InitContext
    /\ InitNoScreen
    /\ InitNoEditor
    /\ InitNoSelector
    /\ InitNoExtra

NextPlatforms ==
    \/ \E platform \in CalledPlatforms :
            connectToPlatform(platform)
                /\ UNCHANGED <<builderVars, contextVars, screenVars, editorVars, selectorVars,
                               clockVars, navVars>>
    \/ \E platform \in CalledPlatforms :
            connectToPlatformResumes(platform)
                /\ UNCHANGED <<builderVars, contextVars, screenVars, editorVars, selectorVars,
                               clockVars, navVars>>
    \/ \E platform \in CalledPlatforms :
            disconnectFromPlatform(platform)
                /\ UNCHANGED <<builderVars, contextVars, screenVars, editorVars, selectorVars,
                               clockVars, navVars>>
    \/ \E platform \in CalledPlatforms :
            disconnectFromPlatformResumes(platform)
                /\ UNCHANGED <<builderVars, contextVars, screenVars, editorVars, selectorVars,
                               clockVars, navVars>>
    \/ \E platform \in CalledPlatforms :
            syncFromPlatform(platform)
                /\ UNCHANGED <<builderVars, contextVars, screenVars, editorVars, selectorVars,
                               clockVars, navVars>>
    \/ \E platform \in CalledPlatforms, count \in 1..MaxSynced :
            syncFromPlatformResumes(platform, count)
                /\ UNCHANGED <<builderVars, contextVars, screenVars, editorVars, selectorVars,
                               clockVars, navVars>>

SpecPlatforms == InitPlatforms /\ [][NextPlatforms]_vars

(***************************************************************************)
(* Routine generation from prompts                                         *)
(***************************************************************************)
PromptWords == {"HIIT", "strength", "Cardio", "weights", "yoga", "core", "with", "please",
                "mindfulness", "pilates"}

ScenarioBPrompt == "a 30-minute HIIT workout focusing on core strength"

\* the prompts of at most MaxPromptWords words, and the prompt of Scenario B
Prompts ==
    {ScenarioBPrompt} \cup
    UNION { { join(q) : q \in [1..n -> PromptWords] } : n \in 1..MaxPromptWords }

RandomSeeds == {"r1", "r2"}

InitGenerator ==
    /\ agent = "mock"
    /\ service = ServiceDown
    /\ user = NoUser
    /\ InitBuilder
    /\ InitContext
    /\ InitNoScreen
    /\ InitNoEditor
    /\ InitNoSelector
    /\ InitNoExtra

NextGenerator ==
    \E prompt \in Prompts, seed \in RandomSeeds :
        generateRoutineFromPrompt(prompt, seed) /\ UNCHANGED <<builderVars, screenVars, editorVars, selectorVars, extraVars>>

SpecGenerator == InitGenerator /\ [][NextGenerator]_vars

(***************************************************************************)
(* Segment editing: cards are imported and opened in the card editor,      *)
(* whose SegmentSelector mounts on the cards that have a media_url         *)
(***************************************************************************)
SegClip == [id |-> "s6", title |-> "Clip", source_type |-> "youtube",
            media_url |-> "https://cdn/clip.mp4",
            startTime |-> 20, endTime |-> 50, duration |-> 30, cues |-> <<>>]
\* a segment that starts at 1:30 and has no end
SegOpenEnded == [id |-> "s7", title |-> "Open ended", source_type |-> "youtube",
                 media_url |-> "https://cdn/open.mp4",
                 startTime |-> 90, duration |-> 30, cues |-> <<>>]
SegTimed == [id |-> "s8", title |-> "Plank", source_type |-> "custom",
             duration |-> 45, cues |-> <<>>]

SelectorAnswers ==
    {ServiceDown} \cup
    { [ok |-> TRUE, json |-> q] : q \in {<<SegClip>>, <<SegClip, SegOpenEnded>>, <<SegTimed>>} }

SelectorUrls == { "https://youtube.com/watch?v=abc",
                  "https://www.instagram.com/p/1",
                  "https://medium.com/blog/stretch" }

InitSelector ==
    /\ agent \in {"mock", "api"}
    /\ service \in SelectorAnswers
    /\ user = NoUser
    /\ InitBuilder
    /\ InitContext
    /\ InitNoScreen
    /\ InitNoEditor
    /\ InitNoSelector
    /\ InitNoExtra

NextSelector ==
    \/ \E url \in SelectorUrls :
            handleImport(url) /\ UNCHANGED <<contextVars, screenVars, editorVars, selectorVars, extraVars>>
    \/ handleImportSettles /\ UNCHANGED <<contextVars, screenVars, editorVars, selectorVars, extraVars>>
    \/ \E i \in 1..Len(cards) :
            openEditor(cards[i]) /\ selectorAfterOpen(cards[i])
                /\ UNCHANGED <<builderVars, contextVars, screenVars, extraVars>>
    \/ \E cardData \in fetching :
            fetchSuggestedCuesSettles(cardData)
                /\ UNCHANGED <<builderVars, contextVars, screenVars, selectorVars, extraVars>>
    \/ mountSegmentSelector /\ UNCHANGED <<builderVars, contextVars, screenVars, extraVars>>

SpecSelector == InitSelector /\ [][NextSelector]_vars

(***************************************************************************)
(* Cue timestamps: cards are imported, opened in the card editor, and the  *)
(* cues cueAgent suggests are merged into them                             *)
(***************************************************************************)
CueTimesAnswers == {ServiceDown, [ok |-> TRUE, json |-> <<SegClip>>]}

CueTimesUrls == { "https://youtube.com/watch?v=abc", "https://www.instagram.com/p/1" }

InitCueTimes ==
    /\ agent \in {"mock", "api"}
    /\ service \in CueTimesAnswers
    /\ user = NoUser
    /\ InitBuilder
    /\ InitContext
    /\ InitNoScreen
    /\ InitNoEditor
    /\ InitNoSelector
    /\ InitNoExtra

NextCueTimes ==
    \/ \E url \in CueTimesUrls :
            handleImport(url) /\ UNCHANGED <<contextVars, screenVars, editorVars, selectorVars, extraVars>>
    \/ handleImportSettles /\ UNCHANGED <<contextVars, screenVars, editorVars, selectorVars, extraVars>>
    \/ \E i \in 1..Len(cards) :
            openEditor(cards[i])
                /\ UNCHANGED <<builderVars, contextVars, screenVars, selectorVars, extraVars>>
    \/ \E cardData \in fetching :
            fetchSuggestedCuesSettles(cardData)
                /\ UNCHANGED <<builderVars, contextVars, screenVars, selectorVars, extraVars>>
    \/ \E i \in 1..Len(suggestedCues) :
            addSuggestedCue(suggestedCues[i])
                /\ UNCHANGED <<builderVars, contextVars, screenVars, selectorVars, extraVars>>

SpecCueTimes == InitCueTimes /\ [][NextCueTimes]_vars

(***************************************************************************)
(* Routine generation from the repository                                  *)
(***************************************************************************)
SearchTerms == {"", "yoga", "YOGA", "Morning", "MIN", "o", "cardio", "guide", "pilates",
                "Workout", "Practice", "medi"}

InitRepository == InitGenerator

NextRepository ==
    \E searchTerm \in SearchTerms, maxCards \in -1..MaxCards, seed \in RandomSeeds :
        generateRoutineFromRepository(searchTerm, maxCards, seed)
            /\ UNCHANGED <<builderVars, screenVars, editorVars, selectorVars, extraVars>>

SpecRepository == InitRepository /\ [][NextRepository]_vars

(***************************************************************************)
(* Routine context: calls made one after the other, each on the state the  *)
(* call before it left, and the generator beside it                        *)
(***************************************************************************)
CardA == [id |-> "a", title |-> "Plank", source_type |-> "custom", duration |-> 30]
CardB == [id |-> "b", title |-> "Push-ups", source_type |-> "custom", sets |-> 3, reps |-> 10]
ContextCards == {CardA, CardB}

\* the sequences over S of length at most n
SeqsUpTo(S, n) == UNION { [1..k -> S] : k \in 0..n }

\* the new routines handed to saveRoutine
NewRoutines == { [title |-> "", cards |-> cs] : cs \in SeqsUpTo(ContextCards, 1) }

RoutineIds == 1..MaxClock

\* the id sequences handed to reorderCards: ids of cards, and one id of no card
ReorderIds == SeqsUpTo({"a", "b", "zz"}, MaxRoutineCards)

CardsOf(routineId) ==
    IF IsRoutine(FindRoutine(routines, routineId))
    THEN FindRoutine(routines, routineId).cards ELSE <<>>

InitRoutines ==
    /\ agent = "mock"
    /\ service = ServiceDown
    /\ user = NoUser
    /\ InitBuilder
    /\ InitContext
    /\ InitNoScreen
    /\ InitNoEditor
    /\ InitNoSelector
    /\ InitNoExtra

NextRoutines ==
    \/ \E routine \in NewRoutines :
            saveRoutine(routine) /\ ReRender /\ UNCHANGED <<builderVars, screenVars, editorVars, selectorVars, extraVars>>
    \/ /\ IsRoutine(activeRoutine)
       /\ saveRoutine(activeRoutine)
       /\ ReRender /\ UNCHANGED <<builderVars, screenVars, editorVars, selectorVars, extraVars>>
    \/ \E routineId \in RoutineIds :
            loadRoutine(routineId) /\ ReRender /\ UNCHANGED <<builderVars, screenVars, editorVars, selectorVars, extraVars>>
    \/ \E routineId \in RoutineIds, card \in ContextCards :
            /\ Len(CardsOf(routineId)) < MaxRoutineCards
            /\ addCardToRoutine(routineId, card) /\ ReRender /\ UNCHANGED <<builderVars, screenVars, editorVars, selectorVars, extraVars>>
    \/ \E routineId \in RoutineIds, cardId \in {"a", "b", "zz"} :
            removeCardFromRoutine(routineId, cardId) /\ ReRender /\ UNCHANGED <<builderVars, screenVars, editorVars, selectorVars, extraVars>>
    \/ \E routineId \in RoutineIds, cardIds \in ReorderIds :
            reorderCards(routineId, cardIds) /\ ReRender /\ UNCHANGED <<builderVars, screenVars, editorVars, selectorVars, extraVars>>
    \/ timePasses /\ ReRender /\ UNCHANGED <<builderVars, screenVars, editorVars, selectorVars, extraVars>>

SpecRoutines == InitRoutines /\ [][NextRoutines]_vars

(***************************************************************************)
(* The routine context between renders: a caller issues several calls on   *)
(* the functions of one render before the provider has rendered again      *)
(***************************************************************************)
InitStaleCalls == InitRoutines

\* the new routine a screen creates before it adds cards to it
EmptyRoutine == [title |-> "", cards |-> <<>>]

NextStaleCalls ==
    \/ /\ saveRoutine(EmptyRoutine)
            /\ UNCHANGED <<rendered, builderVars, screenVars, editorVars, selectorVars, extraVars>>
    \/ \E routineId \in RoutineIds, card \in ContextCards :
            /\ IsRoutine(TargetRoutine(routineId))
            /\ Len(TargetRoutine(routineId).cards) < MaxRoutineCards
            /\ addCardToRoutine(routineId, card)
            /\ UNCHANGED <<rendered, builderVars, screenVars, editorVars, selectorVars, extraVars>>
    \/ \E routineId \in RoutineIds, cardId \in {"a", "b", "zz"} :
            /\ removeCardFromRoutine(routineId, cardId)
            /\ UNCHANGED <<rendered, builderVars, screenVars, editorVars, selectorVars, extraVars>>
    \/ timePasses /\ UNCHANGED <<rendered, builderVars, screenVars, editorVars, selectorVars, extraVars>>
    \/ render /\ UNCHANGED <<builderVars, screenVars, editorVars, selectorVars, extraVars>>

SpecStaleCalls == InitStaleCalls /\ [][NextStaleCalls]_vars

(***************************************************************************)
(* Playback: one of the two PerformRoutineScreen components is mounted on  *)
(* a routine, and its handlers and timer callbacks run in any order        *)
(***************************************************************************)
ScenarioCCards == <<[duration |-> 30], [duration |-> 0], [duration |-> 45]>>

\* the card lists that are played: at most MaxPlaybackCards cards of at most
\* MaxDuration seconds, and the list of Scenario C
PlayedRoutines ==
    {ScenarioCCards} \cup
    UNION { [1..n -> { [duration |-> d] : d \in 0..MaxDuration }] : n \in 1..MaxPlaybackCards }

\* the mock routine of the perform screen: two sections of one exercise each
MockRoutineSections == <<1, 1>>

PerformedRoutines ==
    {MockRoutineSections} \cup
    UNION { [1..n -> 1..MaxExercises] : n \in 1..MaxSections }

InitPlayback ==
    /\ agent = "mock"
    /\ service = ServiceDown
    /\ user = NoUser
    /\ InitBuilder
    /\ InitContext
    /\ InitNoEditor
    /\ InitNoSelector
    /\ InitNoExtra
    /\ event = "none"
    /\ intervals = 0
    /\ routineCompleteAlert = FALSE
    /\ currentIndex = 0
    /\ isPlaying = FALSE
    /\ timeLeft = 0
    /\ timerRef = FALSE
    /\ ticks = 0
    /\ currentSection = 0
    /\ currentExercise = 0
    /\ timer = 0
    /\ isTimerRunning = FALSE
    /\ isCompleted = FALSE
    /\ \/ /\ screen = "RoutinePlayback"
          /\ playedCards \in PlayedRoutines
          /\ sections = <<>>
       \/ /\ screen = "perform"
          /\ playedCards = <<>>
          /\ sections \in PerformedRoutines

NextPlayback ==
    \/ timerTick /\ UNCHANGED <<builderVars, contextVars, editorVars, selectorVars, extraVars>>
    \/ handleNext /\ UNCHANGED <<builderVars, contextVars, editorVars, selectorVars, extraVars>>
    \/ handlePrevious /\ UNCHANGED <<builderVars, contextVars, editorVars, selectorVars, extraVars>>
    \/ toggleTimer /\ UNCHANGED <<builderVars, contextVars, editorVars, selectorVars, extraVars>>
    \/ stopwatchTick /\ UNCHANGED <<builderVars, contextVars, editorVars, selectorVars, extraVars>>
    \/ handleStartTimer /\ UNCHANGED <<builderVars, contextVars, editorVars, selectorVars, extraVars>>
    \/ handlePauseTimer /\ UNCHANGED <<builderVars, contextVars, editorVars, selectorVars, extraVars>>
    \/ handleNextExercise /\ UNCHANGED <<builderVars, contextVars, editorVars, selectorVars, extraVars>>
    \/ handleExit /\ UNCHANGED <<builderVars, contextVars, editorVars, selectorVars, extraVars>>
    \/ handleFinishRoutine /\ UNCHANGED <<builderVars, contextVars, editorVars, selectorVars, extraVars>>

SpecPlayback == InitPlayback /\ [][NextPlayback]_vars

(***************************************************************************)
(* Unattended playback: the session is started once and then only the      *)
(* interval callbacks run, none of which is postponed for ever             *)
(***************************************************************************)
InitAutoplay ==
    /\ agent = "mock"
    /\ service = ServiceDown
    /\ user = NoUser
    /\ InitBuilder
    /\ InitContext
    /\ InitNoEditor
    /\ InitNoSelector
    /\ InitNoExtra
    /\ event = "none"
    /\ intervals = 0
    /\ routineCompleteAlert = FALSE
    /\ currentIndex = 0
    /\ isPlaying = FALSE
    /\ timeLeft = 0
    /\ timerRef = FALSE
    /\ ticks = 0
    /\ currentSection = 0
    /\ currentExercise = 0
    /\ timer = 0
    /\ isTimerRunning = FALSE
    /\ isCompleted = FALSE
    /\ screen = "RoutinePlayback"
    /\ playedCards \in PlayedRoutines
    /\ sections = <<>>

\* the one press of the play button
startSession ==
    /\ event = "none"
    /\ toggleTimer

deliveredTick ==
    timerTick /\ UNCHANGED <<builderVars, contextVars, editorVars, selectorVars, extraVars>>

NextAutoplay ==
    \/ startSession /\ UNCHANGED <<builderVars, contextVars, editorVars, selectorVars, extraVars>>
    \/ deliveredTick

SpecAutoplay == InitAutoplay /\ [][NextAutoplay]_vars /\ WF_vars(deliveredTick)

(***************************************************************************)
(* The stopwatch of the perform screen against the wall clock              *)
(***************************************************************************)
InitStopwatch ==
    /\ agent = "mock"
    /\ service = ServiceDown
    /\ user = NoUser
    /\ InitBuilder
    /\ InitContext
    /\ InitNoEditor
    /\ InitNoSelector
    /\ InitNoClock
    /\ InitNoNav
    /\ InitNoPlatform
    /\ event = "none"
    /\ intervals = 0
    /\ routineCompleteAlert = FALSE
    /\ currentIndex = 0
    /\ isPlaying = FALSE
    /\ timeLeft = 0
    /\ timerRef = FALSE
    /\ ticks = 0
    /\ currentSection = 0
    /\ currentExercise = 0
    /\ timer = 0
    /\ isTimerRunning = FALSE
    /\ isCompleted = FALSE
    /\ screen = "perform"
    /\ playedCards = <<>>
    /\ sections \in PerformedRoutines

NextStopwatch ==
    \/ clockAdvances /\ UNCHANGED <<builderVars, contextVars, editorVars, selectorVars, navVars, platformVars>>
    \/ tickDue /\ stopwatchTick /\ clockAfter("fire")
            /\ UNCHANGED <<builderVars, contextVars, editorVars, selectorVars, navVars, platformVars>>
    \/ ~tickDue /\ handleStartTimer /\ clockAfter("schedule")
            /\ UNCHANGED <<builderVars, contextVars, editorVars, selectorVars, navVars, platformVars>>
    \/ ~tickDue /\ handlePauseTimer /\ clockAfter("clear")
            /\ UNCHANGED <<builderVars, contextVars, editorVars, selectorVars, navVars, platformVars>>
    \/ ~tickDue /\ handleNextExercise /\ clockAfter("keep")
            /\ UNCHANGED <<builderVars, contextVars, editorVars, selectorVars, navVars, platformVars>>
    \/ ~tickDue /\ handleFinishRoutine /\ clockAfter("clear")
            /\ UNCHANGED <<builderVars, contextVars, editorVars, selectorVars, navVars, platformVars>>

SpecStopwatch == InitStopwatch /\ [][NextStopwatch]_vars

(***************************************************************************)
(* Platform detection: a signed-in user imports URLs, some of which match  *)
(* several platform rules or differ from the rules' spelling               *)
(***************************************************************************)
ClassifyUrls ==
    { "https://youtube.com/watch?v=1",
      "https://youtu.be/1?ref=tiktok.com",
      "https://www.tiktok.com/@u?ref=instagram.com",
      "https://www.tiktok.com/@u/video/1",
      "https://www.instagram.com/p/1",
      "https://medium.com/plan",
      "https://blog.example.com/article-1",
      "https://WWW.YOUTUBE.COM/watch",
      "https://insta.example.com/p",
      "https://Example.com/plan" }

InitClassify ==
    /\ agent = "mock"
    /\ service = ServiceDown
    /\ user = "user1"
    /\ InitBuilder
    /\ InitContext
    /\ InitNoScreen
    /\ InitNoEditor
    /\ InitNoSelector
    /\ InitNoExtra

NextClassify ==
    \/ \E url \in ClassifyUrls :
            handleImport(url) /\ UNCHANGED <<contextVars, screenVars, editorVars, selectorVars, extraVars>>
    \/ handleImportSettles /\ UNCHANGED <<contextVars, screenVars, editorVars, selectorVars, extraVars>>

SpecClassify == InitClassify /\ [][NextClassify]_vars

(***************************************************************************)
(* Cue editing: the card editor opens on cards, fetches suggestions, and   *)
(* its cue list is edited                                                  *)
(***************************************************************************)
\* the cards the editor is opened on: without cues, with a cue that has the
\* label of a suggestion, with such a label in lower case, and without media
EditorCards ==
    { [id |-> "e1", title |-> "Core Crusher", media_url |-> "https://cdn/e1.mp4"],
      [id |-> "e2", title |-> "Warm-up Jog", media_url |-> "https://cdn/e2.mp4",
       cues |-> <<[id |-> "c1", label |-> "Keep your core tight", type |-> "form"]>>],
      [id |-> "e3", title |-> "Squat Series", media_url |-> "https://cdn/e3.mp4",
       cues |-> <<[id |-> "c2", label |-> "keep your core tight", type |-> "form"]>>],
      [id |-> "e4", title |-> "Cool Down"] }

CueTexts == {" ", "Hold"}

InitCues ==
    /\ agent = "mock"
    /\ service = ServiceDown
    /\ user = NoUser
    /\ InitBuilder
    /\ InitContext
    /\ InitNoScreen
    /\ InitNoEditor
    /\ InitNoSelector
    /\ InitNoExtra

NextCues ==
    \/ \E card \in EditorCards :
            openEditor(card) /\ UNCHANGED <<builderVars, contextVars, screenVars, selectorVars, extraVars>>
    \/ \E cardData \in fetching :
            fetchSuggestedCuesSettles(cardData)
                /\ UNCHANGED <<builderVars, contextVars, screenVars, selectorVars, extraVars>>
    \/ \E text \in CueTexts :
            setNewCue(text) /\ UNCHANGED <<builderVars, contextVars, screenVars, selectorVars, extraVars>>
    \/ addCue /\ UNCHANGED <<builderVars, contextVars, screenVars, selectorVars, extraVars>>
    \/ \E i \in 1..Len(suggestedCues) :
            addSuggestedCue(suggestedCues[i])
                /\ UNCHANGED <<builderVars, contextVars, screenVars, selectorVars, extraVars>>
    \/ \E i \in 1..Len(cues) :
            removeCue(cues[i].id) /\ UNCHANGED <<builderVars, contextVars, screenVars, selectorVars, extraVars>>

SpecCues == InitCues /\ [][NextCues]_vars

(***************************************************************************)
(* C5..C7                                                                  *)
(***************************************************************************)
Ids(cs) == [i \in 1..Len(cs) |-> cs[i].id]

\* ids lists every element of the id sequence of cs exactly once
IsPermutation(ids, of) ==
    /\ Len(ids) = Len(of)
    /\ \A i, j \in 1..Len(ids) : i # j => ids[i] # ids[j]
    /\ \A i \in 1..Len(ids) : \E j \in 1..Len(of) : of[j] = ids[i]

\* C5: reorderCards(ids) on a routine leaves its cards in exactly the order ids
\* when ids is a permutation of the card ids, and otherwise reports an error
\* and leaves the card order as it was
C5_ReorderAll ==
    (op.name = "reorderCards" /\ op.returned = "true") =>
        /\ IsPermutation(op.arg, Ids(op.before))
        /\ Ids(activeRoutine.cards) = op.arg

\* C5, the half the code keeps: a permutation of the card ids becomes the order
C5_PermutationApplied ==
    (op.name = "reorderCards" /\ op.returned = "true"
        /\ IsPermutation(op.arg, Ids(op.before)))
        => Ids(activeRoutine.cards) = op.arg

\* the prompt names a cardio keyword and a strength keyword, and no keyword
\* of the one type checked before both (yoga)
CardioAndStrength(prompt) ==
    LET p == toLowerCase(prompt)
    IN  /\ includes(p, "cardio") \/ includes(p, "hiit")
        /\ includes(p, "strength") \/ includes(p, "weight")
        /\ ~(includes(p, "yoga") \/ includes(p, "stretch"))

CardTitles(routine) == [i \in 1..Len(routine.cards) |-> routine.cards[i].card.title]

CardioTitles ==
    <<"Warm-up Jog", "HIIT Interval 1", "Active Recovery", "HIIT Interval 2", "Cool Down">>
StrengthTitles == <<"Warm-up", "Squat Series", "Push-up Variations", "Cool Down">>

\* C6 as claimed: a prompt with a cardio keyword and a strength keyword is
\* classified as cardio and gets the 5-card cardio template
C6_CardioBeforeStrength ==
    (IsRoutine(generated) /\ CardioAndStrength(generated.description))
        => CardTitles(generated) = CardioTitles

\* C6 as amended: the strength keywords are checked before the cardio keywords,
\* so such a prompt is classified as strength and gets the 4-card strength
\* template, with the title ending in "Strength Training"
C6_StrengthBeforeCardio ==
    (IsRoutine(generated) /\ CardioAndStrength(generated.description))
        => /\ CardTitles(generated) = StrengthTitles
           /\ Len(generated.cards) = 4
           /\ includes(generated.title, " Strength Training")

\* C6: Scenario B has been generated: its prompt names "HIIT" and "strength"
C6_Witness ==
    /\ IsRoutine(generated)
    /\ generated.description = ScenarioBPrompt
    /\ generated.title = "30-minute HIIT Strength Training"

\* the sum of the durations of a card list, a card without duration counting 0
RECURSIVE SumOfDurations(_)
SumOfDurations(cs) ==
    IF cs = <<>> THEN 0
    ELSE (IF "duration" \in DOMAIN Head(cs) THEN Head(cs).duration ELSE 0)
            + SumOfDurations(Tail(cs))

TotalDurationCurrent(routine) ==
    /\ "totalDuration" \in DOMAIN routine
    /\ routine.totalDuration = SumOfDurations(routine.cards)

\* C7: every routine carries a totalDuration equal to the sum of the durations
\* of its current cards: the generated one, and the ones of the routine context
\* after every save, append, remove and reorder
C7_TotalDurationCurrent ==
    /\ IsRoutine(generated) =>
            generated.totalDuration =
                SumOfDurations([i \in 1..Len(generated.cards) |-> generated.cards[i].card])
    /\ IsRoutine(activeRoutine) => TotalDurationCurrent(activeRoutine)
    /\ \A i \in 1..Len(routines) : TotalDurationCurrent(routines[i])

(***************************************************************************)
(* C1..C4                                                                  *)
(***************************************************************************)
\* a segment the Segmentation Client must keep: a title, and an end after the start
ValidSegment(seg) == seg.title # "" /\ seg.endTime > seg.startTime

Titles(cs) == [i \in 1..Len(cs) |-> cs[i].title]

\* C1: a completed intakeAgent call on a parseable URL returns at least one card,
\* whatever the segmentation service answered
C1_SegmentNeverEmpty ==
    call.status = "returned" => Len(call.cards) >= 1

\* C2: when the segmentation service is down, the call made to it completes with
\* a result after a single request and the import shows no failure notice
C2_ServiceFailureAbsorbed ==
    (call.status \in {"returned", "threw"} /\ call.requests >= 1 /\ ~service.ok)
        => (call.status = "returned" /\ call.requests = 1 /\ alert # "Server Error")

\* C3: of the segments the service returned, the call returns exactly the valid
\* ones (a title, endTime > startTime), in the order the service gave them
C3_DropsInvalidSegments ==
    (call.status = "returned" /\ call.requests >= 1
        /\ \E i \in 1..Len(service.json) : ValidSegment(service.json[i]))
        => Titles(call.cards) = Titles(SelectSeq(service.json, ValidSegment))

\* C4: the routine's card list never holds two cards with the same id
C4_NoDuplicateIds ==
    \A i, j \in 1..Len(cards) : i # j => cards[i].id # cards[j].id

(***************************************************************************)
(* C8..C10 playback                                                        *)
(***************************************************************************)
\* C8: while a non-empty routine is played, the position stays inside the
\* routine whatever the order of next, previous, play/pause and timer ticks:
\* 0 <= currentIndex < len(cards) on the RoutinePlayback screen, and the
\* section and exercise positions are inside the routine on the perform screen
C8_IndexInRange ==
    /\ screen = "RoutinePlayback" =>
            (0 <= currentIndex /\ currentIndex < Len(playedCards))
    /\ screen = "perform" =>
            /\ 0 <= currentSection /\ currentSection < Len(sections)
            /\ 0 <= currentExercise /\ currentExercise < sections[currentSection + 1]

\* C8: the timer has expired while the last card of a longer routine was current
C8_Witness ==
    /\ screen = "RoutinePlayback"
    /\ event = "timerTick"
    /\ Len(playedCards) > 1
    /\ currentIndex = Len(playedCards) - 1
    /\ ~isPlaying
    /\ timeLeft = 0

\* C9 (as stated): every tick of a card of duration d takes one second off
\* timeLeft, which stays at or above 0, until the d-th tick, which stops the
\* timer of that card and moves currentIndex forward by exactly one
C9_ExpiryMovesIndex ==
    [][event' = "timerTick" =>
        /\ timeLeft' >= 0
        /\ IF ticks + 1 < DurationAt(currentIndex)
           THEN /\ timeLeft' = timeLeft - 1
                /\ currentIndex' = currentIndex
                /\ timerRef'
           ELSE /\ ticks + 1 = DurationAt(currentIndex)
                /\ currentIndex' = currentIndex + 1
                /\ (timerRef' => ticks' = 0)]_vars

\* C9 (amended): every tick of a card of duration d takes one second off
\* timeLeft, which stays at or above 0, until the d-th tick, which stops the
\* timer of that card; on a card that is not the last it moves currentIndex
\* forward by exactly one, the session still playing, and a new countdown runs
\* exactly when the new card has a duration; on the last card currentIndex
\* stays, timeLeft is 0, the session stops playing and no timer is left
C9_ExpiryAdvancesOrStops ==
    [][event' = "timerTick" =>
        /\ timeLeft' >= 0
        /\ IF ticks + 1 < DurationAt(currentIndex)
           THEN /\ timeLeft' = timeLeft - 1
                /\ currentIndex' = currentIndex
                /\ timerRef' /\ isPlaying'
           ELSE /\ ticks + 1 = DurationAt(currentIndex)
                /\ IF currentIndex < Len(playedCards) - 1
                   THEN /\ currentIndex' = currentIndex + 1
                        /\ isPlaying'
                        /\ timerRef' <=> DurationAt(currentIndex') # 0
                        /\ IF timerRef'
                           THEN timeLeft' = DurationAt(currentIndex') /\ ticks' = 0
                           ELSE timeLeft' = 0
                   ELSE /\ currentIndex' = currentIndex
                        /\ ~isPlaying' /\ ~timerRef'
                        /\ timeLeft' = 0]_vars

\* C9: Scenario C, 30 ticks after the start: the session is at index 1, whose
\* card has no duration, and no timer is scheduled
C9_Witness ==
    /\ screen = "RoutinePlayback"
    /\ playedCards = ScenarioCCards
    /\ event = "timerTick"
    /\ currentIndex = 1
    /\ ~timerRef
    /\ timeLeft = 0

\* C10: an advance from a card that is not the last, manual (handleNext) or
\* automatic (the tick on which the timer expires), moves currentIndex forward
\* by one and keeps the running state: a session that was playing is playing
\* on the new card, counting down from its duration when it has one, and a
\* session that was stopped is stopped
C10_AdvancePreservesRunning ==
    [][(/\ screen = "RoutinePlayback"
        /\ currentIndex < Len(playedCards) - 1
        /\ \/ event' = "handleNext"
           \/ event' = "timerTick" /\ timeLeft <= 1) =>
        /\ currentIndex' = currentIndex + 1
        /\ isPlaying' = isPlaying
        /\ isPlaying /\ DurationAt(currentIndex') # 0 =>
                timerRef' /\ timeLeft' = DurationAt(currentIndex')
        /\ ~isPlaying => ~timerRef']_vars

(***************************************************************************)
(* C11..C13 playback                                                       *)
(***************************************************************************)
\* the session has completed: the RoutinePlayback screen has shown 'Routine
\* Complete', the perform screen shows its completed view
Completed ==
    \/ screen = "RoutinePlayback" /\ routineCompleteAlert
    \/ screen = "perform" /\ isCompleted

\* C11: an advance at the last index completes the session instead of
\* incrementing, and a completed session is terminal: no handler and no timer
\* tick changes the position, the time or the running state any more
C11_CompletedIsTerminal ==
    [][/\ (screen = "RoutinePlayback" /\ event' = "handleNext"
            /\ currentIndex = Len(playedCards) - 1) =>
                (routineCompleteAlert' /\ currentIndex' = currentIndex)
       /\ Completed =>
            /\ UNCHANGED <<currentIndex, timeLeft, isPlaying>>
            /\ UNCHANGED <<currentSection, currentExercise, timer, isTimerRunning>>
            /\ Completed' \/ screen' = "none"]_vars

\* C12: the once-per-second tick is cancelled whenever the session stops
\* running: at most one interval is scheduled, none is scheduled (so no tick
\* is delivered) while the session is not playing, and none is left after
\* the screen is unmounted
C12_TimerCancelled ==
    /\ intervals <= 1
    /\ intervals > 0 =>
            \/ screen = "RoutinePlayback" /\ isPlaying /\ timerRef
            \/ screen = "perform" /\ isTimerRunning
    /\ screen = "none" => intervals = 0

\* C12: the RoutinePlayback screen was left while its countdown was running,
\* after at least one tick
C12_Witness ==
    /\ screen = "none"
    /\ event = "handleExit"
    /\ isPlaying
    /\ ticks >= 1
    /\ intervals = 0

\* C13: handlePrevious with currentIndex > 0 moves back by exactly one card
\* and leaves the session stopped with no timer, whatever it was before; with
\* currentIndex = 0 it changes neither the position nor the timer state
C13_RetreatStopsTimer ==
    [][(screen = "RoutinePlayback" /\ event' = "handlePrevious") =>
        IF currentIndex > 0
        THEN /\ currentIndex' = currentIndex - 1
             /\ ~isPlaying'
             /\ ~timerRef'
             /\ intervals' = 0
        ELSE UNCHANGED <<currentIndex, isPlaying, timeLeft, timerRef, intervals>>]_vars

\* C13: the session has moved back from the second card to the first after
\* the countdown of the second card had started and ticked
C13_Witness ==
    /\ screen = "RoutinePlayback"
    /\ event = "handlePrevious"
    /\ Len(playedCards) >= 2
    /\ currentIndex = 0
    /\ ~isPlaying
    /\ timeLeft > 0 /\ timeLeft < DurationAt(1)

(***************************************************************************)
(* C14..C16 editing the card list                                          *)
(***************************************************************************)
\* seq without its element at the 1-based position k
Without(seq, k) == SubSeq(seq, 1, k - 1) \o SubSeq(seq, k + 1, Len(seq))

clamp(n, low, high) == IF n < low THEN low ELSE IF n > high THEN high ELSE n

\* the last edit was reorderCards on a card that was in the list
MovedPresentCard ==
    /\ edit.name = "reorderCards"
    /\ edit.fromIndex >= 0 /\ edit.fromIndex < Len(edit.before)

\* the moved card sits at the 0-based index target, and the other cards are in
\* the order they had before
MovedTo(target) ==
    /\ Len(cards) = Len(edit.before)
    /\ cards[target + 1] = edit.before[edit.fromIndex + 1]
    /\ Without(cards, target + 1) = Without(edit.before, edit.fromIndex + 1)

\* C14: moving a card that is in the list to any integer index, negative, in
\* range or beyond the end, gives the same cards with the moved card at
\* clamp(newIndex, 0, len - 1) and the other cards in their former order
C14_MoveToClamps ==
    MovedPresentCard => MovedTo(clamp(edit.toIndex, 0, Len(edit.before) - 1))

\* C14, the part the code keeps: a target index that is not negative
C14_MoveToClampsAtEnd ==
    (MovedPresentCard /\ edit.toIndex >= 0) =>
        MovedTo(clamp(edit.toIndex, 0, Len(edit.before) - 1))

\* C15: moving a card that is not in the list (its lookup gave no index)
\* leaves the card list as it was: no other card is moved or removed
C15_MoveUnknownCardRejected ==
    (edit.name = "reorderCards" /\ edit.fromIndex < 0) => cards = edit.before

\* C16: removeCard(cardId) removes exactly the first card with that id and
\* keeps the other cards in their order, and leaves the list as it was when
\* no card has that id
C16_RemovesFirstWithId ==
    edit.name = "removeCard" =>
        IF findIndex(edit.before, edit.cardId) >= 0
        THEN /\ Len(cards) = Len(edit.before) - 1
             /\ cards = Without(edit.before, findIndex(edit.before, edit.cardId) + 1)
        ELSE cards = edit.before

(***************************************************************************)
(* C17..C18 cues                                                           *)
(***************************************************************************)
Labels(cs) == [i \in 1..Len(cs) |-> cs[i].label]

\* C17: addSuggestedCue leaves the cue list as it is when a cue with exactly
\* the same label, compared case-sensitively, is in the list, and otherwise
\* appends that one cue at the end
C17_MergeDeduplicatesByLabel ==
    [][cueEdit'.name = "addSuggestedCue" =>
        LET cue == cueEdit'.cue
        IN  IF \E i \in 1..Len(cues) : cues[i].label = cue.label
            THEN cues' = cues
            ELSE /\ Len(cues') = Len(cues) + 1
                 /\ SubSeq(cues', 1, Len(cues)) = cues
                 /\ cues'[Len(cues')].label = cue.label
                 /\ cues'[Len(cues')].type = cue.type
                 /\ cues'[Len(cues')].timestamp = cue.timestamp]_vars

\* C17: all three suggestions were merged into the card that already held
\* "Keep your core tight": only the other two were added, and the suggestion
\* with the label the card held, merged last, added nothing
C17_Witness ==
    /\ editedCard # NoCard /\ editedCard.id = "e2"
    /\ cueEdit.name = "addSuggestedCue"
    /\ cueEdit.cue.label = "Keep your core tight"
    /\ Labels(cues) = <<"Keep your core tight", "Breathe with each movement",
                        "Focus on the muscle contraction">>
    /\ cues[1].id = "c1"
    /\ Labels(suggestedCues) = <<"Keep your core tight">>

\* the keyword rule of the cue fallback on the lower-cased title
CueKeyword(title) ==
    IF includes(toLowerCase(title), "core") THEN "core"
    ELSE IF includes(toLowerCase(title), "warm") THEN "warm"
    ELSE "generic"

\* C18: the suggested cues are a function of the keyword in the lower-cased
\* title: "core", "warm" and every other title each get their own fixed
\* triplet, so two calls return the same labels in the same order exactly
\* when their titles fall under the same keyword rule
C18_CuesByTitleKeyword ==
    \A a, b \in cueCalls :
        /\ Len(a.labels) = 3
        /\ (CueKeyword(a.title) = CueKeyword(b.title)) <=> (a.labels = b.labels)

(***************************************************************************)
(* C19..C20 platform detection                                             *)
(***************************************************************************)
\* the platform rules of detectPlatform, each with the substrings it looks for
VideoHostingRule == [platform |-> "youtube", marks |-> {"youtube.com", "youtu.be"}]
ShortFormVideoRule == [platform |-> "tiktok", marks |-> {"tiktok.com"}]
ImageSocialRule == [platform |-> "instagram", marks |-> {"instagram.com"}]
ArticleRule == [platform |-> "article", marks |-> {"medium.com", "blog.", "article", ".blog"}]

RuleMatches(rule, url) == \E mark \in rule.marks : includes(toLowerCase(url), mark)

\* the platform of the first rule of the list that matches, "web" when none does
FirstMatch(rules, url) ==
    IF \E i \in 1..Len(rules) : RuleMatches(rules[i], url)
    THEN rules[CHOOSE i \in 1..Len(rules) :
                    /\ RuleMatches(rules[i], url)
                    /\ \A j \in 1..(i - 1) : ~RuleMatches(rules[j], url)].platform
    ELSE "web"

\* C19 (as stated): every saved URL has the platform of the first rule that
\* matches it in the order video-hosting, short-form-video, image-social,
\* article, generic-web
C19_ShortFormBeforeImageSocial ==
    \A i \in 1..Len(savedContent) :
        savedContent[i].platform =
            FirstMatch(<<VideoHostingRule, ShortFormVideoRule, ImageSocialRule, ArticleRule>>,
                       savedContent[i].url)

\* C19 (amended): every saved URL has the platform of the first rule that
\* matches it in the order video-hosting, image-social, short-form-video,
\* article, generic-web, the same on every call for the same URL
C19_ImageSocialBeforeShortForm ==
    \A i \in 1..Len(savedContent) :
        savedContent[i].platform =
            FirstMatch(<<VideoHostingRule, ImageSocialRule, ShortFormVideoRule, ArticleRule>>,
                       savedContent[i].url)

\* C19: a URL that matches the tiktok rule and the instagram rule was saved
\* twice
C19_Witness ==
    /\ Len(savedContent) = 2
    /\ savedContent[1].url = "https://www.tiktok.com/@u?ref=instagram.com"
    /\ savedContent[2].url = "https://www.tiktok.com/@u?ref=instagram.com"
    /\ savedContent[1].platform = "instagram"
    /\ savedContent[2].platform = "instagram"

\* the platform a source type or a detected platform stands for: 'web' and
\* 'custom' both stand for the generic web
PlatformOf(tag) == IF tag \in {"web", "custom"} THEN "generic-web" ELSE tag

\* C20: the platform recorded when the content of a URL is saved and the
\* source type of every card that intakeAgent makes for that URL are the same
\* platform
C20_OnePlatformPerUrl ==
    (call.status = "returned" /\ Len(savedContent) > 0) =>
        \A i \in 1..Len(call.cards) :
            PlatformOf(call.cards[i].source_type) = PlatformOf(savedContent[1].platform)
(***************************************************************************)
(* C21: with maxCards >= 0, generateRoutineFromRepository returns exactly   *)
(* the first min(maxCards, m) items that match the keyword (in any case,   *)
(* in the title, the description or a tag name; the empty keyword matches  *)
(* every item), one card per item, in the order of the collection, m being *)
(* the number of matching items.                                           *)
(***************************************************************************)
\* kw occurs in s when case is ignored
ContainsIgnoringCase(s, kw) ==
    \E i \in 1..(Len(s) - Len(kw) + 1) :
        toLowerCase(SubSeq(s, i, i + Len(kw) - 1)) = toLowerCase(kw)

ItemMatches(item, kw) ==
    \/ kw = ""
    \/ ContainsIgnoringCase(item.title, kw)
    \/ ContainsIgnoringCase(item.description, kw)
    \/ \E t \in 1..Len(item.tags) : ContainsIgnoringCase(item.tags[t], kw)

\* the positions of the collection whose items match the keyword of the last call
MatchingPositions ==
    LET collection == mockRepositoryData(op.seed)
    IN  {j \in 1..Len(collection) : ItemMatches(collection[j], op.searchTerm)}

C21_FirstMatchesInOrder ==
    (op.name = "generateRoutineFromRepository" /\ op.maxCards >= 0) =>
        LET collection == mockRepositoryData(op.seed)
            m == Cardinality(MatchingPositions)
            k == IF op.maxCards < m THEN op.maxCards ELSE m
            rank(j) == Cardinality({i \in MatchingPositions : i <= j})
        IN  /\ Len(generated.cards) = k
            /\ \A j \in MatchingPositions :
                  rank(j) <= k =>
                      LET routineCard == generated.cards[rank(j)]
                      IN  /\ routineCard.card.id = collection[j].id
                          /\ routineCard.card.title = collection[j].title
                          /\ routineCard.card.sourceUrl = collection[j].source_url

\* a keyword in capitals matched two of the three items and one card was asked for
C21_Witness ==
    /\ op.name = "generateRoutineFromRepository"
    /\ op.searchTerm = "MIN"
    /\ op.maxCards = 1
    /\ Cardinality(MatchingPositions) = 2
    /\ Len(generated.cards) = 1
    /\ generated.cards[1].card.title = "HIIT Workout"

(***************************************************************************)
(* C22: every card that has both a start and an end offset has             *)
(* endTime > startTime >= 0 and duration = endTime - startTime, whether it *)
(* is a card of the builder's list that segmentation produced or the card  *)
(* under edit in the card editor.                                          *)
(***************************************************************************)
SegmentBoundsHold(card) ==
    ("startTime" \in DOMAIN card /\ "endTime" \in DOMAIN card) =>
        /\ card.startTime >= 0
        /\ card.endTime > card.startTime
        /\ "duration" \in DOMAIN card
        /\ card.duration = card.endTime - card.startTime

C22_SegmentBoundsHold ==
    /\ \A i \in 1..Len(cards) : SegmentBoundsHold(cards[i])
    /\ editedCard # NoCard => SegmentBoundsHold(editedCard)

(***************************************************************************)
(* C23: on a card with a known duration every cue that has a timestamp     *)
(* has 0 <= timestamp <= duration, for the cards segmentation returned     *)
(* and for the cues of the card under edit after suggested cues were       *)
(* merged into them.                                                       *)
(***************************************************************************)
CueTimesWithin(card, cueList) ==
    "duration" \in DOMAIN card =>
        \A i \in 1..Len(cueList) :
            "timestamp" \in DOMAIN cueList[i] =>
                (0 <= cueList[i].timestamp /\ cueList[i].timestamp <= card.duration)

C23_CueTimestampsWithinCard ==
    /\ \A i \in 1..Len(cards) : CueTimesWithin(cards[i], cards[i].cues)
    /\ editedCard # NoCard => CueTimesWithin(editedCard, cues)

\* the suggested cue at 45 seconds was merged into the 30-second card
C23_MergedBeyondDuration ==
    ~ ( /\ editedCard # NoCard
        /\ CueTimesWithin(editedCard, editedCard.cues)
        /\ ~CueTimesWithin(editedCard, cues) )

(***************************************************************************)
(* C24: the total time reported at completion is exactly the whole seconds *)
(* during which the session was running between the first start and the    *)
(* completing advance: time spent paused and time after completion do not  *)
(* count, and neither do the exercises or how many were stepped over.      *)
(***************************************************************************)
C24_TotalIsRunningTime ==
    (screen = "perform" /\ isCompleted) => timer = runningTime \div UnitsPerInterval

(***************************************************************************)
(* C25: the tag screen is reached only after the routine holding the       *)
(* builder's current card list has been saved: every step that navigates   *)
(* from the builder to the tag screen ends with the provider's routines    *)
(* holding a routine with these cards, which is the active routine.        *)
(***************************************************************************)
\* the card list of the builder is saved in the provider as the active routine
CardListSaved ==
    /\ IsRoutine(activeRoutine)
    /\ activeRoutine.cards = cards
    /\ FindRoutine(routines, activeRoutine.id) = activeRoutine

C25_SavedBeforeNavigation ==
    [][(navigation.route = "Builder" /\ navigation'.route = "TagRoutine") => CardListSaved']_vars

\* the same for the navigation of unnamed/part_002 alone, which passes the
\* id of the saved routine
C25_PersistingScreenSavesFirst ==
    [][(navigation.route = "Builder" /\ navigation'.route = "TagRoutine"
            /\ "routineId" \in DOMAIN navigation')
       => (CardListSaved' /\ activeRoutine'.id = navigation'.routineId)]_vars

(***************************************************************************)
(* C26: an import of a URL that does not parse is reported to the user as  *)
(* an input error and goes no further: no request is sent to the           *)
(* segmentation service, no card is produced, and the card list and the    *)
(* saved-content store stay as they were.                                  *)
(***************************************************************************)
C26_UnparseableUrlRejected ==
    [][(call'.n > 0 /\ ~UrlParses(call'.url)) =>
            /\ alert' \in {"Invalid Input", "Please enter a URL"}
            /\ ~isLoading'
            /\ call'.requests = 0
            /\ call'.cards = <<>>
            /\ cards' = cards
            /\ savedContent' = savedContent]_vars

\* a URL without a scheme that names youtube was refused after an import
\* that had added cards and saved content
C26_Witness ==
    /\ call.n = 2
    /\ call.url = "youtube.com/watch"
    /\ call.status = "invalid url"
    /\ alert = "Invalid Input"
    /\ Len(cards) > 0
    /\ Len(savedContent) = 1

(***************************************************************************)
(* C27: a pause followed by a resume on the same card changes only         *)
(* isPlaying: the toggle that follows a pausing toggle leaves currentIndex *)
(* alone and the countdown goes on from the timeLeft it had when paused.   *)
(***************************************************************************)
C27_ResumeKeepsTimeLeft ==
    [][(event = "toggleTimer" /\ ~isPlaying /\ event' = "toggleTimer") =>
            /\ isPlaying'
            /\ currentIndex' = currentIndex
            /\ timeLeft' = timeLeft]_vars

\* the pause alone: it stops the session and keeps the index and the time left
C27_PauseKeepsTimeLeft ==
    [][(isPlaying /\ event' = "toggleTimer") =>
            /\ ~isPlaying'
            /\ currentIndex' = currentIndex
            /\ timeLeft' = timeLeft]_vars

(***************************************************************************)
(* C28: when timer ticks keep being delivered, a session started on a      *)
(* routine whose cards all have a positive duration, and then left alone,  *)
(* reaches the end of the routine: the index only ever moves to the next   *)
(* one, and finally the last card is current with the timer stopped.       *)
(***************************************************************************)
AllDurationsPositive == \A i \in 1..Len(playedCards) : playedCards[i].duration > 0

EndOfRoutine ==
    /\ currentIndex = Len(playedCards) - 1
    /\ ~isPlaying
    /\ intervals = 0
    /\ routineCompleteAlert

C28_ReachesEndOfRoutine ==
    /\ (AllDurationsPositive /\ isPlaying) ~> EndOfRoutine
    /\ [][AllDurationsPositive =>
            /\ currentIndex' \in {currentIndex, currentIndex + 1}
            /\ (EndOfRoutine => EndOfRoutine')]_vars

\* a routine of three cards of two seconds each has played to its end
C28_Witness ==
    /\ screen = "RoutinePlayback"
    /\ Len(playedCards) = 3
    /\ \A i \in 1..3 : playedCards[i].duration = 2
    /\ event = "timerTick"
    /\ EndOfRoutine

(***************************************************************************)
(* C29: however connect, disconnect and sync calls interleave, a platform  *)
(* that is not connected carries neither lastSynced nor username, and a    *)
(* sync that returns content does so for a platform that is connected at   *)
(* the moment it completes.                                                *)
(***************************************************************************)
C29_DisconnectedStaysBare ==
    /\ \A i \in 1..Len(platformConnections) :
            ~platformConnections[i].isConnected =>
                DOMAIN platformConnections[i] = {"platform", "isConnected"}
    /\ syncResult.name = "returned" => syncResult.connected

\* the first half alone, when no sync is ever called
C29_BareWithoutSync ==
    (syncResult = NoSync /\ \A c \in inFlight : c.fn # "syncFromPlatform") =>
        \A i \in 1..Len(platformConnections) :
            ~platformConnections[i].isConnected =>
                DOMAIN platformConnections[i] = {"platform", "isConnected"}

(***************************************************************************)
(* C30: no update to a routine is lost in the routine context.  A call of  *)
(* addCardToRoutine that saves leaves the routine with the cards it held   *)
(* in routines just before, followed by the added card, and a call of      *)
(* removeCardFromRoutine leaves those cards without the removed one, also  *)
(* when the provider has not rendered since the call before; and routines  *)
(* never holds two entries with the same id.                               *)
(***************************************************************************)
RoutineIdsUnique ==
    \A i, j \in 1..Len(routines) : routines[i].id = routines[j].id => i = j

\* a call of the context that returned a routine has just run
ContextCallSaved(name) ==
    /\ op'.name = name
    /\ op'.returned = "routine"
    /\ <<activeRoutine, routines, op>>' # <<activeRoutine, routines, op>>
    /\ IsRoutine(FindRoutine(routines, activeRoutine'.id))

C30_NoUpdateLost ==
    /\ [][ContextCallSaved("addCardToRoutine") =>
            FindRoutine(routines', activeRoutine'.id).cards =
                Append(FindRoutine(routines, activeRoutine'.id).cards, op'.arg)]_vars
    /\ [][ContextCallSaved("removeCardFromRoutine") =>
            FindRoutine(routines', activeRoutine'.id).cards =
                SelectSeq(FindRoutine(routines, activeRoutine'.id).cards,
                          LAMBDA c : c.id # op'.arg)]_vars
    /\ []RoutineIdsUnique

\* the second half alone: the ids in routines stay distinct
C30_RoutineIdsStayUnique == []RoutineIdsUnique

\* the first half when the provider has rendered since the last change
C30_NoUpdateLostAfterRender ==
    [][(/\ rendered = [activeRoutine |-> activeRoutine, routines |-> routines]
        /\ ContextCallSaved("addCardToRoutine")) =>
            FindRoutine(routines', activeRoutine'.id).cards =
                Append(FindRoutine(routines, activeRoutine'.id).cards, op'.arg)]_vars

====
